---- MODULE Spec2Model ----
(***************************************************************************)
(* A model of the Linux USB transport of BRLTTY (Programs/usb_linux.c):    *)
(* the device handle and its interface control requests, the URB           *)
(* submit/reap/cancel primitives and the asynchronous input monitor.       *)
(*                                                                         *)
(* The kernel is the environment.  Every request the code issues is        *)
(* answered by a value drawn from a small set of answers, so that the      *)
(* properties hold for every sequence of kernel answers.                   *)
(***************************************************************************)
EXTENDS Integers, Sequences, FiniteSets, TLC

(***************************************************************************)
(* errno values (Linux) and the values of C pointers and descriptors.      *)
(***************************************************************************)
EIO == 5
ENXIO == 6
EAGAIN == 11
EBUSY == 16
ENODEV == 19
EINVAL == 22
ENOENT == 2
ENODATA == 61
EPERM == 1
EBADF == 9
ENOMEM == 12
EPROTO == 71
ETIMEDOUT == 110
ENOSYS == 38

NoFile == -1      \* devx->usbfsFile when the node is not open
FD == 3           \* the descriptor a successful open() returns
NULL == 0         \* a null pointer; requests are numbered from 1

(***************************************************************************)
(* Bounds of the model.                                                    *)
(***************************************************************************)
MaxInterface == 1        \* interfaces 0..MaxInterface
MaxClaimAnswers == 3     \* kernel answers enumerated for the claim requests of one call

MaxUrbs == 3             \* transfer requests allocated over the life of the handle
MaxSubmitAnswers == 3    \* kernel answers enumerated for the submit requests of one call
MaxZeros == 4            \* consecutive zero-byte completions followed on one endpoint

Interfaces == 0..MaxInterface
UrbIds == 1..MaxUrbs

\* The endpoints of the device: two input endpoints.
Endpoints == {1, 2}

\* BRAILLE_INPUT_POLL_INTERVAL, the maximum of the backoff interval.
BRAILLE_INPUT_POLL_INTERVAL == 40

\* The values USB_INPUT_URB_RESUBMIT_DELAY may have been built with.
ResubmitDelays == {0, 5}

\* The polling interval (bInterval) the interrupt endpoint declares; the bulk
\* endpoint declares none (0).
LongInterval == 50

VARIABLES
  usbfsFile,   \* devx->usbfsFile
  claimed,     \* kernel: the interfaces claimed through the open node
  last,        \* the outcome of the last call: operation, argument, result, errno, requests issued
  desc,        \* endpoint->descriptor of each endpoint: transfer type and bInterval
  resubmitDelay, \* USB_INPUT_URB_RESUBMIT_DELAY
  urbs,        \* the transfer requests (struct usbdevfs_urb) allocated so far
  pend,        \* kernel: the submissions of each request that have not completed
  kdone,       \* kernel: the completed requests not yet reaped, oldest first
  gone,        \* kernel: the device has been removed
  eptx,        \* the UsbEndpointExtension of each endpoint
  sigPending,  \* the completion signals raised and not yet handled
  zeros,       \* zero-byte completions handled since Prepare or the last data
  closing,     \* the device handle is being torn down
  xfer,        \* the synchronous interrupt transfer in progress, if any
  fs,          \* the file system under the usbfs root: the kind of each path
  usbHostDevices, \* the inventory of host devices (the queue usbHostDevices)
  sysfs,       \* a call of usbMakeSysfsPath: its argument, the paths it tried, its result
  submit       \* a call of usbSubmitURB: the request, the endpoint, the kernel's answers, its result

ifaceVars == <<usbfsFile, claimed>>
hostVars == <<fs, usbHostDevices, sysfs, submit>>
urbVars == <<desc, resubmitDelay, urbs, pend, kdone, gone, eptx, sigPending, zeros, closing,
             xfer, hostVars>>
vars == <<usbfsFile, claimed, last, desc, resubmitDelay, urbs, pend, kdone, gone, eptx,
          sigPending, zeros, closing, xfer, fs, usbHostDevices, sysfs, submit>>

(***************************************************************************)
(* The record of one request issued to the kernel (ioctl or open).         *)
(***************************************************************************)
Ioctl(code, err, drv) == [code |-> code, err |-> err, drv |-> drv]

Outcome(op, arg, ret, errno, log) ==
  [op |-> op, arg |-> arg, ret |-> ret, errno |-> errno, log |-> log]

\* After a step of the kernel no call is the last thing that happened.
NoCall == Outcome("kernel", 0, 0, 0, <<>>)

\* The answer of the kernel to the next request of a call; beyond the answers
\* enumerated the kernel answers success.
KernelAnswer(answers) == IF answers = <<>> THEN 0 ELSE Head(answers)

(***************************************************************************)
(* usbOpenUsbfsFile: opens the node on first use only.  openErr is the     *)
(* answer of open(): 0 or an errno.                                        *)
(***************************************************************************)
\* Mutant: the node is opened by every call.
usbOpenAlways(file, openErr) ==
  IF openErr = 0
  THEN [ok |-> TRUE, file |-> FD, log |-> <<Ioctl("open", 0, "")>>]
  ELSE [ok |-> FALSE, file |-> NoFile, log |-> <<Ioctl("open", openErr, "")>>]

usbOpenUsbfsFile(file, openErr) ==
  IF file = NoFile
  THEN IF openErr = 0
       THEN [ok |-> TRUE, file |-> FD, log |-> <<Ioctl("open", 0, "")>>]
       ELSE [ok |-> FALSE, file |-> NoFile, log |-> <<Ioctl("open", openErr, "")>>]
  ELSE [ok |-> TRUE, file |-> file, log |-> <<>>]

(***************************************************************************)
(* usbGetDriver: the name of the driver bound to the interface, or "" for  *)
(* NULL (request failed, or strdup failed).  The node is already open when *)
(* usbClaimInterface gets here.                                            *)
(***************************************************************************)
usbGetDriver(drvAns, alloc) ==
  [name |-> IF drvAns.err = 0 /\ alloc THEN drvAns.drv ELSE "",
   log |-> <<Ioctl("GETDRIVER", drvAns.err, drvAns.drv)>>]

(***************************************************************************)
(* usbDisconnectDriver, through usbControlDriver: one USBDEVFS_IOCTL       *)
(* request carrying USBDEVFS_DISCONNECT.                                   *)
(***************************************************************************)
usbDisconnectDriver(discAns) ==
  [ok |-> discAns = 0, log |-> <<Ioctl("DISCONNECT", discAns, "")>>]

\* A variant of IsUsbfs that never recognises the generic transport driver.
IsUsbfsNever(driver) == FALSE

\* The test of usbDisconnectInterface for the generic transport driver.
IsUsbfs(driver) == driver = "usbfs"

(***************************************************************************)
(* usbDisconnectInterface: 1 only when a driver other than usbfs was       *)
(* found and disconnected.                                                 *)
(***************************************************************************)
usbDisconnectInterface(drvAns, alloc, discAns) ==
  LET g == usbGetDriver(drvAns, alloc) IN
  IF g.name = "" THEN [ok |-> FALSE, log |-> g.log]
  ELSE IF IsUsbfs(g.name) THEN [ok |-> FALSE, log |-> g.log]
  ELSE LET d == usbDisconnectDriver(discAns) IN
       [ok |-> d.ok, log |-> g.log \o d.log]

\* A variant of ClaimGivesUp that forgets that a driver was already disconnected.
ClaimNeverGivesUp(disconnected) == FALSE

\* The test "if (disconnected) break" of usbClaimInterface's loop.
ClaimGivesUp(disconnected) == disconnected

(***************************************************************************)
(* The loop of usbClaimInterface, once the node is open.                   *)
(***************************************************************************)
RECURSIVE usbClaimLoop(_, _, _, _, _, _)
usbClaimLoop(claimAns, drvAns, alloc, discAns, disconnected, log) ==
  LET a == KernelAnswer(claimAns)
      log1 == Append(log, Ioctl("CLAIMINTERFACE", a, ""))
  IN IF a = 0 THEN [ret |-> 1, errno |-> 0, log |-> log1]
     ELSE IF a # EBUSY THEN [ret |-> 0, errno |-> a, log |-> log1]
     ELSE IF ClaimGivesUp(disconnected) THEN [ret |-> 0, errno |-> EBUSY, log |-> log1]
     ELSE LET d == usbDisconnectInterface(drvAns, alloc, discAns) IN
          IF ~d.ok THEN [ret |-> 0, errno |-> EBUSY, log |-> log1 \o d.log]
          ELSE usbClaimLoop(Tail(claimAns), drvAns, alloc, discAns, TRUE, log1 \o d.log)

(***************************************************************************)
(* usbClaimInterface.                                                      *)
(***************************************************************************)
usbClaimInterface(file, openErr, claimAns, drvAns, alloc, discAns) ==
  LET o == usbOpenUsbfsFile(file, openErr) IN
  IF ~o.ok THEN [ret |-> 0, errno |-> openErr, log |-> o.log, file |-> o.file]
  ELSE LET r == usbClaimLoop(claimAns, drvAns, alloc, discAns, FALSE, o.log) IN
       [ret |-> r.ret, errno |-> r.errno, log |-> r.log, file |-> o.file]

\* A variant of ReleaseSucceeds that does not tolerate a removed device.
ReleaseSucceedsStrict(err) == err = 0

\* The statuses of the release request that usbReleaseInterface reports as success.
ReleaseSucceeds(err) == err = 0 \/ err = ENODEV

(***************************************************************************)
(* usbReleaseInterface.                                                    *)
(***************************************************************************)
usbReleaseInterface(file, openErr, relAns) ==
  LET o == usbOpenUsbfsFile(file, openErr) IN
  IF ~o.ok THEN [ret |-> 0, errno |-> openErr, log |-> o.log, file |-> o.file]
  ELSE [ret |-> IF ReleaseSucceeds(relAns) THEN 1 ELSE 0,
        errno |-> relAns,
        log |-> Append(o.log, Ioctl("RELEASEINTERFACE", relAns, "")),
        file |-> o.file]

(***************************************************************************)
(* usbSetConfiguration, usbSetAlternative and usbClearHalt: one request,   *)
(* whose success or failure is passed through.                             *)
(***************************************************************************)
usbSimpleRequest(file, openErr, code, ans) ==
  LET o == usbOpenUsbfsFile(file, openErr) IN
  IF ~o.ok THEN [ret |-> 0, errno |-> openErr, log |-> o.log, file |-> o.file]
  ELSE [ret |-> IF ans = 0 THEN 1 ELSE 0,
        errno |-> ans,
        log |-> Append(o.log, Ioctl(code, ans, "")),
        file |-> o.file]

(***************************************************************************)
(* The answers of the kernel.                                              *)
(***************************************************************************)
OpenAnswers == {0, ENOENT}
ClaimAnswers == {0, EBUSY, ENODEV}
GetDriverAnswers ==
  {[err |-> ENODATA, drv |-> ""], [err |-> 0, drv |-> "usbfs"], [err |-> 0, drv |-> "usbhid"]}
DisconnectAnswers == {0, EPERM}
ReleaseAnswers == {0, ENODEV, EINVAL}
SimpleAnswers == {0, ENODEV}
SimpleRequests == {"SETCONFIGURATION", "SETINTERFACE", "CLEAR_HALT"}

(***************************************************************************)
(* The completed-request queue of an endpoint (queue.c): enqueueItem adds  *)
(* at the tail, dequeueItem takes the head, deleteItem removes the item    *)
(* wherever it is and tells whether it was there.                          *)
(***************************************************************************)
enqueueItem(q, item) == Append(q, item)

InQueue(q, item) == \E i \in 1..Len(q) : q[i] = item

deleteItem(q, item) ==
  IF InQueue(q, item)
  THEN LET i == CHOOSE k \in 1..Len(q) :
                  q[k] = item /\ \A j \in 1..(k - 1) : q[j] # item
       IN SubSeq(q, 1, i - 1) \o SubSeq(q, i + 1, Len(q))
  ELSE q

(***************************************************************************)
(* usbGetResubmitDelay: the nominal interval of an endpoint.               *)
(***************************************************************************)
usbGetResubmitDelay(bInterval, default) ==
  IF bInterval = 0 THEN default ELSE bInterval

Nominal(e) == usbGetResubmitDelay(desc[e].bInterval, resubmitDelay)

MIN(a, b) == IF a < b THEN a ELSE b

\* Mutant: the doubled interval is not capped.
BackoffUncapped(delay) == IF delay # 0 THEN delay * 2 ELSE 1

\* The interval after a zero-byte completion (usbHandleInputSignal).
BackoffDelay(delay) ==
  MIN(IF delay # 0 THEN delay * 2 ELSE 1, BRAILLE_INPUT_POLL_INTERVAL)

(***************************************************************************)
(* usbMakeURB: the type tag of a new request, from the transfer type its   *)
(* endpoint declares.                                                      *)
(***************************************************************************)
UrbType(transfer) ==
  CASE transfer = "Control" -> "CONTROL"
    [] transfer = "Isochronous" -> "ISO"
    [] transfer = "Interrupt" -> "INTERRUPT"
    [] transfer = "Bulk" -> "BULK"

usbMakeURB(e, signr, owner) ==
  [st |-> "live", ep |-> e, type |-> UrbType(desc[e].transfer), signr |-> signr,
   status |-> 0, len |-> 0, owner |-> owner, frees |-> 0, dlv |-> 0]

\* The requests allocated so far are 1..Allocated; malloc returns the next one.
Allocated == Cardinality({u \in UrbIds : urbs[u].st # "none"})
NextUrb == Allocated + 1

\* Mutant: the retry does not look at the type tag of the request.
RetriesSubmitAnyType(err, transfer, type) ==
  err = EINVAL /\ transfer = "Interrupt"

\* The test of usbSubmitURB for its retry with another type tag.
RetriesSubmit(err, transfer, type) ==
  err = EINVAL /\ transfer = "Interrupt" /\ type = "BULK"

\* Mutant: the retry leaves the type tag as it was.
RetryKeepsBulk == "BULK"

\* The type tag usbSubmitURB retries with.
RetryType == "INTERRUPT"

(***************************************************************************)
(* usbSubmitURB: the loop over the submit requests.  The result carries    *)
(* the type tag the request ends with.                                     *)
(***************************************************************************)
RECURSIVE usbSubmitURB(_, _, _, _)
usbSubmitURB(type, transfer, answers, log) ==
  LET a == KernelAnswer(answers)
      log1 == Append(log, Ioctl("SUBMITURB", a, type))
  IN IF a = 0 THEN [ok |-> TRUE, type |-> type, errno |-> 0, log |-> log1]
     ELSE IF RetriesSubmit(a, transfer, type)
          THEN usbSubmitURB(RetryType, transfer, Tail(answers), log1)
          ELSE [ok |-> FALSE, type |-> type, errno |-> a, log |-> log1]

\* What the kernel answers to the submit requests of one call: the node must
\* be open and the device present; otherwise the answers are those chosen.
SubmitAnswersOf(file, chosen) ==
  [i \in 1..Len(chosen) |->
     IF file = NoFile THEN EBADF ELSE IF gone THEN ENODEV ELSE chosen[i]]

SubmitAnswers == {0, EINVAL}

(***************************************************************************)
(* The part of the state the reap and cancel loops work on: the node, the  *)
(* completed queues, the kernel's completed list, the requests issued.     *)
(***************************************************************************)
Machine(log) ==
  [file |-> usbfsFile,
   q |-> [e \in Endpoints |-> eptx[e].completedRequests],
   kd |-> kdone,
   log |-> log]

\* The request usbReapUrb issues.
ReapCode(wait) == IF wait THEN "REAPURB" ELSE "REAPURBNDELAY"

\* Mutant: every failed reap is reported as a system error.
ReapLogsAlways(wait, errno) == TRUE

\* The test of usbReapUrb for reporting a failed reap as a system error.
ReapLogsError(wait, errno) == wait \/ errno # EAGAIN

\* What usbReapUrb logs for a reap request answered errno.
ReapFailure(code, wait, errno) ==
  <<Ioctl(code, errno, "")>>
    \o (IF ReapLogsError(wait, errno) THEN <<Ioctl("logSystemError", errno, "")>>
        ELSE <<>>)

\* Mutant: the reaped request is put at the head of the queue.
FileCompletedAtHead(q, urb) == [q EXCEPT ![urbs[urb].ep] = <<urb>> \o @]

\* usbReapUrb files the reaped request on the completed queue of its endpoint.
FileCompleted(q, urb) == [q EXCEPT ![urbs[urb].ep] = enqueueItem(@, urb)]

(***************************************************************************)
(* usbReapUrb: reaps one completed request and files it on the completed   *)
(* queue of its endpoint.  A blocking reap with nothing completed does not *)
(* return (blocked).                                                       *)
(***************************************************************************)
usbReapUrb(m, wait, openErr) ==
  LET o == usbOpenUsbfsFile(m.file, openErr)
      code == ReapCode(wait)
  IN IF ~o.ok
     THEN [ok |-> FALSE, errno |-> openErr, blocked |-> FALSE,
           m |-> [m EXCEPT !.log = @ \o o.log]]
     ELSE IF gone
     THEN [ok |-> FALSE, errno |-> ENODEV, blocked |-> FALSE,
           m |-> [m EXCEPT !.file = o.file,
                           !.log = @ \o o.log \o ReapFailure(code, wait, ENODEV)]]
     ELSE IF m.kd # <<>>
     THEN [ok |-> TRUE, errno |-> 0, blocked |-> FALSE,
           m |-> [m EXCEPT !.file = o.file,
                           !.q = FileCompleted(@, Head(m.kd)),
                           !.kd = Tail(@),
                           !.log = @ \o o.log \o <<Ioctl(code, 0, "")>>]]
     ELSE IF code = "REAPURB"
     THEN [ok |-> FALSE, errno |-> 0, blocked |-> TRUE,
           m |-> [m EXCEPT !.file = o.file, !.log = @ \o o.log]]
     ELSE [ok |-> FALSE, errno |-> EAGAIN, blocked |-> FALSE,
           m |-> [m EXCEPT !.file = o.file,
                           !.log = @ \o o.log \o ReapFailure(code, wait, EAGAIN)]]

(***************************************************************************)
(* usbReapResponse, its loop: dequeues the oldest completed request of the *)
(* endpoint, reaping from the kernel while the queue is empty.             *)
(***************************************************************************)
RECURSIVE usbReapLoop(_, _, _, _)
usbReapLoop(m, e, wait, openErr) ==
  IF m.q[e] # <<>>
  THEN [urb |-> Head(m.q[e]), errno |-> 0, blocked |-> FALSE,
        m |-> [m EXCEPT !.q[e] = Tail(@)]]
  ELSE LET r == usbReapUrb(m, wait, openErr) IN
       IF ~r.ok
       THEN [urb |-> NULL, errno |-> r.errno, blocked |-> r.blocked, m |-> r.m]
       ELSE usbReapLoop(r.m, e, wait, openErr)

(***************************************************************************)
(* usbReapResponse, the response it fills in: the status of the request    *)
(* as a positive errno, and the count, which the input filters may reject. *)
(***************************************************************************)
Abs(x) == IF x < 0 THEN -x ELSE x

Response(urb, filtersAccept) ==
  IF urbs[urb].status # 0
  THEN [error |-> Abs(urbs[urb].status), count |-> -1]
  ELSE IF filtersAccept
  THEN [error |-> 0, count |-> urbs[urb].len]
  ELSE [error |-> EIO, count |-> -1]

usbReapResponse(m, e, wait, openErr, filtersAccept) ==
  LET r == usbReapLoop(m, e, wait, openErr) IN
  IF r.urb = NULL
  THEN [urb |-> NULL, errno |-> r.errno, blocked |-> r.blocked, m |-> r.m,
        response |-> [error |-> 0, count |-> 0]]
  ELSE LET rsp == Response(r.urb, filtersAccept) IN
       [urb |-> r.urb, errno |-> rsp.error, blocked |-> FALSE, m |-> r.m,
        response |-> rsp]

(***************************************************************************)
(* usbCancelRequest, its loop: looks for the request on the completed      *)
(* queue of its endpoint, reaping without waiting until it is there or a   *)
(* reap fails.  Without reaping (device gone) the request counts as found. *)
(***************************************************************************)
\* Mutant: the loop looks on the completed queue and does not reap.
usbCancelNoDrain(m, request, reap) ==
  LET e == urbs[request].ep IN
  IF InQueue(m.q[e], request)
  THEN [found |-> TRUE, errno |-> 0, m |-> [m EXCEPT !.q[e] = deleteItem(@, request)]]
  ELSE [found |-> ~reap, errno |-> IF reap THEN EAGAIN ELSE ENODEV, m |-> m]

\* Mutant: a request not on its queue is not found when the device is gone.
RECURSIVE usbCancelGoneFails(_, _, _)
usbCancelGoneFails(m, request, reap) ==
  LET e == urbs[request].ep IN
  IF InQueue(m.q[e], request)
  THEN [found |-> TRUE, errno |-> 0, m |-> [m EXCEPT !.q[e] = deleteItem(@, request)]]
  ELSE IF ~reap THEN [found |-> FALSE, errno |-> ENODEV, m |-> m]
  ELSE LET r == usbReapUrb(m, FALSE, 0) IN
       IF ~r.ok THEN [found |-> FALSE, errno |-> r.errno, m |-> r.m]
       ELSE usbCancelGoneFails(r.m, request, reap)

RECURSIVE usbCancelLoop(_, _, _)
usbCancelLoop(m, request, reap) ==
  LET e == urbs[request].ep IN
  IF InQueue(m.q[e], request)
  THEN [found |-> TRUE, errno |-> 0, m |-> [m EXCEPT !.q[e] = deleteItem(@, request)]]
  ELSE IF ~reap THEN [found |-> TRUE, errno |-> ENODEV, m |-> m]
  ELSE LET r == usbReapUrb(m, FALSE, 0) IN
       IF ~r.ok THEN [found |-> FALSE, errno |-> r.errno, m |-> r.m]
       ELSE usbCancelLoop(r.m, request, reap)

\* Mutant: the request is not released.
FreeNot(u, request) == u

\* free(): the request is released (once more).
Free(u, request) ==
  [u EXCEPT ![request].st = "freed", ![request].frees = @ + 1,
            ![request].status = 0, ![request].len = 0]

\* A request slot not yet allocated, and an endpoint not yet used.
NoUrb ==
  [st |-> "none", ep |-> 0, type |-> "", signr |-> 0, status |-> 0, len |-> 0,
   owner |-> "", frees |-> 0, dlv |-> 0]

NoExtension ==
  [st |-> "absent", completedRequests |-> <<>>, urb |-> NULL, signalHandle |-> FALSE,
   alarmHandle |-> FALSE, submitDelay |-> 0, pipe |-> FALSE, error |-> 0,
   sigHeld |-> 0]

\* No synchronous interrupt transfer is in progress.
NoTransfer == [urb |-> NULL, ep |-> 0, zero |-> FALSE, asleep |-> FALSE]

(***************************************************************************)
(* The file system under the usbfs root.  A name is a sequence of          *)
(* characters, a path is the sequence of the names below the root.         *)
(***************************************************************************)
MaxDepth == 2

Names == {<<"1">>, <<"2">>, <<"1", "x">>}

Paths == UNION {[1..n -> Names] : n \in 1..MaxDepth}

Absent == [type |-> "absent", descriptor |-> "none"]

\* Nothing is below the root.
NoFiles == [p \in Paths |-> Absent]

\* usbHostDevices is NULL: there is no inventory.
NoInventory == [queue |-> FALSE, items |-> <<>>]

\* usbMakeSysfsPath has not been called.
NoSysfs(usbfsPath) ==
  [usbfsPath |-> usbfsPath, called |-> FALSE, tried |-> <<>>, sysfsPath |-> NULL]

\* usbSubmitURB has not been called.
NoSubmit(type, transfer, answers) ==
  [type |-> type, transfer |-> transfer, answers |-> answers, called |-> FALSE,
   ok |-> FALSE, errno |-> 0, log |-> <<>>]

\* The state after construction of everything but the arguments of the
\* functions called on their own.
InitState ==
  /\ xfer = NoTransfer
  /\ fs = NoFiles
  /\ usbHostDevices = NoInventory
  /\ usbfsFile = NoFile
  /\ claimed = {}
  /\ last = NoCall
  /\ desc = [e \in Endpoints |->
               IF e = 1 THEN [transfer |-> "Interrupt", bInterval |-> LongInterval]
                        ELSE [transfer |-> "Bulk", bInterval |-> 0]]
  /\ resubmitDelay \in ResubmitDelays
  /\ urbs = [u \in UrbIds |-> NoUrb]
  /\ pend = [u \in UrbIds |-> 0]
  /\ kdone = <<>>
  /\ gone = FALSE
  /\ eptx = [e \in Endpoints |-> NoExtension]
  /\ sigPending = {}
  /\ zeros = [e \in Endpoints |-> 0]
  /\ closing = FALSE

Init ==
  /\ InitState
  /\ sysfs = NoSysfs(<<>>)
  /\ submit = NoSubmit("BULK", "Bulk", <<>>)

(***************************************************************************)
(* The calls of the protocol driver on the device handle.                  *)
(***************************************************************************)
ClaimInterface ==
  \E i \in Interfaces, openErr \in OpenAnswers,
     claimAns \in [1..MaxClaimAnswers -> ClaimAnswers],
     drvAns \in GetDriverAnswers, alloc \in BOOLEAN, discAns \in DisconnectAnswers :
    LET r == usbClaimInterface(usbfsFile, openErr, claimAns, drvAns, alloc, discAns) IN
    /\ usbfsFile' = r.file
    /\ claimed' = IF r.ret = 1 THEN claimed \cup {i} ELSE claimed
    /\ last' = Outcome("claimInterface", i, r.ret, r.errno, r.log)
    /\ UNCHANGED urbVars

ReleaseInterface ==
  \E i \in Interfaces, openErr \in OpenAnswers, relAns \in ReleaseAnswers :
    LET r == usbReleaseInterface(usbfsFile, openErr, relAns) IN
    /\ usbfsFile' = r.file
    /\ claimed' = IF r.file # NoFile /\ relAns = 0 THEN claimed \ {i} ELSE claimed
    /\ last' = Outcome("releaseInterface", i, r.ret, r.errno, r.log)
    /\ UNCHANGED urbVars

SimpleRequest ==
  \E code \in SimpleRequests, arg \in Interfaces,
     openErr \in OpenAnswers, ans \in SimpleAnswers :
    LET r == usbSimpleRequest(usbfsFile, openErr, code, ans) IN
    /\ usbfsFile' = r.file
    /\ last' = Outcome(code, arg, r.ret, r.errno, r.log)
    /\ UNCHANGED <<claimed, urbVars>>

NextIface == ClaimInterface \/ ReleaseInterface \/ SimpleRequest

\* One device: its fixed default interval is 0.
InitDevice ==
  /\ Init
  /\ resubmitDelay = 0

SpecIface == InitDevice /\ [][NextIface]_vars

(***************************************************************************)
(* The kernel.                                                             *)
(***************************************************************************)
\* How a submitted request may complete: no data, data, or a transfer error.
\* (A request of the protocol driver is followed with data or with an error.)
Completions(u) ==
  {[status |-> 0, len |-> 1], [status |-> -EPROTO, len |-> 0]}
    \cup (IF urbs[u].owner = "monitor" THEN {[status |-> 0, len |-> 0]} ELSE {})

\* The completion signal of a request, if it asks for one.
Signals(u) == IF urbs[u].signr # 0 THEN {urbs[u].signr} ELSE {}

KernelComplete ==
  \E u \in UrbIds : \E c \in Completions(u) :
    /\ ~gone
    /\ pend[u] > 0
    /\ (urbs[u].owner = "monitor" /\ c.status = 0 /\ c.len = 0)
         => zeros[urbs[u].ep] < MaxZeros
    /\ pend' = [pend EXCEPT ![u] = @ - 1]
    /\ kdone' = Append(kdone, u)
    /\ urbs' = [urbs EXCEPT ![u].status = c.status, ![u].len = c.len]
    /\ sigPending' = sigPending \cup Signals(u)
    /\ last' = NoCall
    /\ UNCHANGED <<ifaceVars, desc, xfer, hostVars, resubmitDelay, gone, eptx, zeros, closing>>

Unplug ==
  /\ ~gone
  /\ gone' = TRUE
  /\ last' = NoCall
  /\ UNCHANGED <<ifaceVars, desc, xfer, hostVars, resubmitDelay, urbs, pend, kdone, eptx,
                 sigPending, zeros, closing>>

\* The answer to USBDEVFS_DISCARDURB on the node `file`.
DiscardAnswer(file, request) ==
  IF file = NoFile THEN EBADF
  ELSE IF gone THEN ENODEV
  ELSE IF pend[request] > 0 THEN 0
  ELSE EINVAL

(***************************************************************************)
(* Writing the loops' result back.                                         *)
(***************************************************************************)
WithQueues(x, m) ==
  [e \in Endpoints |-> [x[e] EXCEPT !.completedRequests = m.q[e]]]

Call(name, err) == Ioctl(name, err, "")

(***************************************************************************)
(* The answers of the environment that a call can observe: open() is       *)
(* called only while the node is not open, and a callee that is not        *)
(* reached has no answer to give.                                          *)
(***************************************************************************)
OpenAnswersNow == IF usbfsFile = NoFile THEN OpenAnswers ELSE {0}
Choice(reached) == IF reached THEN BOOLEAN ELSE {TRUE}
SubmitChoices(reached) ==
  IF reached THEN [1..MaxSubmitAnswers -> SubmitAnswers]
  ELSE {[i \in 1..MaxSubmitAnswers |-> 0]}

(***************************************************************************)
(* usbAllocateEndpointExtension.                                           *)
(***************************************************************************)
usbAllocateEndpointExtension(e) ==
  [st |-> "present", completedRequests |-> <<>>, urb |-> NULL, signalHandle |-> FALSE,
   alarmHandle |-> FALSE, submitDelay |-> Nominal(e), pipe |-> FALSE, error |-> 0,
   sigHeld |-> 0]

PrepareFailures == {"none", "pipe", "urb", "signal", "monitor"}

\* Mutant: the monitor keeps the pointer to the request it has freed.
KeepMonitorUrb(x) == x

\* The unwinding of usbPrepareInputEndpoint frees the request and clears
\* eptx->monitor.urb.
ReleaseMonitorUrb(x) == [x EXCEPT !.urb = NULL]

(***************************************************************************)
(* usbPrepareInputEndpoint on the new extension x: the extension it        *)
(* leaves, with the calls it made.  sub is the result of usbSubmitURB.     *)
(* (LINUX_USB_INPUT_PIPE_DISABLE is taken as 0: the input pipe is in use.) *)
(***************************************************************************)
usbPrepareInputEndpoint(x, urb, failAt, sub) ==
  IF failAt = "pipe"
  THEN [ok |-> FALSE, x |-> x, log |-> <<Call("usbMakeInputPipe", 1)>>]
  ELSE LET x1 == [x EXCEPT !.pipe = TRUE]
           l1 == <<Call("usbMakeInputPipe", 0)>>
       IN
  IF failAt = "urb"
  THEN [ok |-> FALSE, x |-> [x1 EXCEPT !.pipe = FALSE],
        log |-> l1 \o <<Call("usbMakeURB", 1), Call("usbDestroyInputPipe", 0)>>]
  ELSE LET x2 == [x1 EXCEPT !.urb = urb]
           l2 == Append(l1, Call("usbMakeURB", 0))
       IN
  IF failAt = "signal"
  THEN [ok |-> FALSE, x |-> ReleaseMonitorUrb([x2 EXCEPT !.pipe = FALSE]),
        log |-> l2 \o <<Call("asyncObtainSignalNumber", 1), Call("free", 0),
                        Call("usbDestroyInputPipe", 0)>>]
  ELSE LET x3 == [x2 EXCEPT !.sigHeld = @ + 1]
           l3 == Append(l2, Call("asyncObtainSignalNumber", 0))
       IN
  IF failAt = "monitor"
  THEN [ok |-> FALSE,
        x |-> ReleaseMonitorUrb([x3 EXCEPT !.sigHeld = @ - 1, !.pipe = FALSE]),
        log |-> l3 \o <<Call("asyncMonitorSignal", 1),
                        Call("asyncRelinquishSignalNumber", 0), Call("free", 0),
                        Call("usbDestroyInputPipe", 0)>>]
  ELSE LET x4 == [x3 EXCEPT !.signalHandle = TRUE]
           l4 == Append(l3, Call("asyncMonitorSignal", 0)) \o sub.log
       IN
  IF sub.ok
  THEN [ok |-> TRUE, x |-> x4, log |-> l4]
  ELSE [ok |-> FALSE,
        x |-> ReleaseMonitorUrb([x4 EXCEPT !.signalHandle = FALSE, !.sigHeld = @ - 1,
                                           !.pipe = FALSE]),
        log |-> l4 \o <<Call("asyncCancelRequest", 0),
                        Call("asyncRelinquishSignalNumber", 0), Call("free", 0),
                        Call("usbDestroyInputPipe", 0)>>]

(***************************************************************************)
(* Prepare: the first use of an input endpoint creates its extension and   *)
(* prepares it for monitoring.                                             *)
(***************************************************************************)
Prepare(e) ==
  \E failAt \in PrepareFailures :
  \E chosen \in SubmitChoices(failAt = "none") :
    LET urb == NextUrb
        made == usbMakeURB(e, e, "monitor")
        sub == usbSubmitURB(made.type, desc[e].transfer,
                            SubmitAnswersOf(usbfsFile, chosen), <<>>)
        p == usbPrepareInputEndpoint(usbAllocateEndpointExtension(e), urb, failAt, sub)
    IN /\ eptx[e].st = "absent"
       /\ ~closing
       /\ urb <= MaxUrbs
       /\ eptx' = [eptx EXCEPT ![e] = p.x]
       /\ urbs' = IF p.ok THEN [urbs EXCEPT ![urb] = [made EXCEPT !.type = sub.type]]
                  ELSE urbs
       /\ pend' = IF p.ok THEN [pend EXCEPT ![urb] = @ + 1] ELSE pend
       /\ last' = Outcome("prepare", e, IF p.ok THEN 1 ELSE 0,
                          IF failAt = "none" THEN sub.errno ELSE 0, p.log)
       /\ UNCHANGED <<ifaceVars, desc, xfer, hostVars, resubmitDelay, kdone, gone, sigPending, zeros,
                      closing>>

(***************************************************************************)
(* On a platform without completion signals the first use of an endpoint   *)
(* creates its extension and nothing else: the endpoint is synchronous.    *)
(***************************************************************************)
UseEndpoint(e) ==
  /\ eptx[e].st = "absent"
  /\ ~closing
  /\ eptx' = [eptx EXCEPT ![e] = usbAllocateEndpointExtension(e)]
  /\ last' = Outcome("useEndpoint", e, 1, 0, <<>>)
  /\ UNCHANGED <<ifaceVars, desc, xfer, hostVars, resubmitDelay, urbs, pend, kdone, gone, sigPending,
                 zeros, closing>>

(***************************************************************************)
(* The node is opened by the first call that needs it (usbClearHalt when   *)
(* the protocol driver first reaches the device).                          *)
(***************************************************************************)
ClearHalt ==
  \E openErr \in OpenAnswersNow, ans \in SimpleAnswers :
    LET r == usbSimpleRequest(usbfsFile, openErr, "CLEAR_HALT", ans) IN
    /\ usbfsFile = NoFile
    /\ ~closing
    /\ usbfsFile' = r.file
    /\ last' = Outcome("CLEAR_HALT", 0, r.ret, r.errno, r.log)
    /\ UNCHANGED <<claimed, urbVars>>

(***************************************************************************)
(* usbSubmitRequest.                                                       *)
(***************************************************************************)
SubmitRequest(e) ==
  \E openErr \in OpenAnswersNow :
  \E alloc \in Choice(openErr = 0) :
  \E chosen \in SubmitChoices(openErr = 0 /\ alloc) :
    LET o == usbOpenUsbfsFile(usbfsFile, openErr)
        urb == NextUrb
        made == usbMakeURB(e, 0, "user")
        sub == usbSubmitURB(made.type, desc[e].transfer,
                            SubmitAnswersOf(o.file, chosen), o.log)
        ok == o.ok /\ alloc /\ sub.ok
    IN /\ eptx[e].st = "present"
       /\ ~closing
       /\ urb <= MaxUrbs
       /\ usbfsFile' = o.file
       /\ urbs' = IF ok THEN [urbs EXCEPT ![urb] = [made EXCEPT !.type = sub.type]]
                  ELSE urbs
       /\ pend' = IF ok THEN [pend EXCEPT ![urb] = @ + 1] ELSE pend
       /\ last' = IF ~o.ok THEN Outcome("submitRequest", e, NULL, openErr, o.log)
                  ELSE IF ~alloc
                  THEN Outcome("submitRequest", e, NULL, ENOMEM,
                               Append(o.log, Call("usbMakeURB", 1)))
                  ELSE Outcome("submitRequest", e, IF sub.ok THEN urb ELSE NULL,
                               sub.errno, sub.log)
       /\ UNCHANGED <<claimed, desc, xfer, hostVars, resubmitDelay, kdone, gone, eptx, sigPending,
                      zeros, closing>>

(***************************************************************************)
(* usbReapResponse, called by the protocol driver.                         *)
(***************************************************************************)
\* The input filters are applied to a reaped request whose status is success.
FiltersReached(e, wait, openErr) ==
  LET r == usbReapLoop(Machine(<<>>), e, wait, openErr) IN
  r.urb # NULL /\ urbs[r.urb].status = 0

ReapOp(wait) == IF wait THEN "reapResponseWait" ELSE "reapResponse"

ReapResponse(e) ==
  \E wait \in BOOLEAN, openErr \in OpenAnswersNow :
  \E filtersAccept \in Choice(FiltersReached(e, wait, openErr)) :
    LET r == usbReapResponse(Machine(<<>>), e, wait, openErr, filtersAccept) IN
    /\ eptx[e].st = "present"
    /\ ~closing
    /\ ~r.blocked
    /\ usbfsFile' = r.m.file
    /\ eptx' = WithQueues(eptx, r.m)
    /\ kdone' = r.m.kd
    /\ urbs' = IF r.urb # NULL THEN [urbs EXCEPT ![r.urb].dlv = @ + 1] ELSE urbs
    /\ last' = Outcome(ReapOp(wait), e, r.urb, r.errno,
                       IF r.urb # NULL
                       THEN Append(r.m.log, Call("count", r.response.count))
                       ELSE r.m.log)
    /\ UNCHANGED <<claimed, desc, xfer, hostVars, resubmitDelay, pend, gone, sigPending, zeros, closing>>

(***************************************************************************)
(* usbCancelRequest, called by the protocol driver on a request it         *)
(* submitted and has not been handed back.                                 *)
(***************************************************************************)
CancelRequest(request) ==
  \E openErr \in OpenAnswersNow :
    LET o == usbOpenUsbfsFile(usbfsFile, openErr)
        d == DiscardAnswer(o.file, request)
        m0 == Machine(Append(o.log, Call("DISCARDURB", d)))
        m1 == [m0 EXCEPT !.file = o.file,
                         !.kd = IF d = 0 THEN Append(@, request) ELSE @]
        c == usbCancelLoop(m1, request, d # ENODEV)
        urbs1 == IF d = 0
                 THEN [urbs EXCEPT ![request].status = -ENOENT, ![request].len = 0]
                 ELSE urbs
    IN /\ urbs[request].st = "live"
       /\ urbs[request].owner = "user"
       /\ urbs[request].dlv = 0
       /\ ~closing
       /\ usbfsFile' = o.file
       /\ IF ~o.ok
          THEN /\ last' = Outcome("cancelRequest", request, 0, openErr, o.log)
               /\ UNCHANGED <<urbs, pend, kdone, eptx, sigPending>>
          ELSE /\ pend' = IF d = 0 THEN [pend EXCEPT ![request] = @ - 1] ELSE pend
               /\ sigPending' = IF d = 0 THEN sigPending \cup Signals(request)
                                ELSE sigPending
               /\ kdone' = c.m.kd
               /\ eptx' = WithQueues(eptx, c.m)
               /\ urbs' = IF c.found THEN Free(urbs1, request) ELSE urbs1
               /\ last' = Outcome("cancelRequest", request, IF c.found THEN 1 ELSE 0,
                                  IF c.found THEN 0 ELSE c.errno,
                                  IF c.found THEN Append(c.m.log, Call("free", 0))
                                  ELSE c.m.log)
       /\ UNCHANGED <<claimed, desc, xfer, hostVars, resubmitDelay, gone, zeros, closing>>

(***************************************************************************)
(* Mutant: the request is not submitted again.                             *)
(***************************************************************************)
usbResubmitNothing(u, p, urb, e, chosen, log) ==
  [ok |-> TRUE, errno |-> 0, log |-> log, urbs |-> u, pend |-> p]

\* Mutant: the request is submitted again with the length it came back with.
usbResubmitKeepsLength(u, p, urb, e, chosen, log) ==
  LET sub == usbSubmitURB(u[urb].type, desc[e].transfer,
                          SubmitAnswersOf(usbfsFile, chosen), log)
  IN [ok |-> sub.ok, errno |-> sub.errno, log |-> sub.log,
      urbs |-> [u EXCEPT ![urb].type = sub.type],
      pend |-> IF sub.ok THEN [p EXCEPT ![urb] = @ + 1] ELSE p]

(***************************************************************************)
(* usbResubmitInputURB: the actual length is reset and the request is      *)
(* submitted again.  Gives the requests, the kernel's pending submissions  *)
(* and the calls made.                                                     *)
(***************************************************************************)
usbResubmitInputURB(u, p, urb, e, chosen, log) ==
  LET sub == usbSubmitURB(u[urb].type, desc[e].transfer,
                          SubmitAnswersOf(usbfsFile, chosen), log)
  IN [ok |-> sub.ok, errno |-> sub.errno, log |-> sub.log,
      urbs |-> [u EXCEPT ![urb].len = 0, ![urb].type = sub.type],
      pend |-> IF sub.ok THEN [p EXCEPT ![urb] = @ + 1] ELSE p]

\* The callbacks run from the event loop: not while the endpoints of the
\* handle are torn down one after the other and the node is closed, and,
\* during a synchronous transfer, only in its sleep (asyncWait).
InEventLoop ==
  /\ \/ ~closing
     \/ /\ \A e \in Endpoints : eptx[e].st # "present"
        /\ usbfsFile = NoFile
  /\ xfer = NoTransfer \/ xfer.asleep

\* Mutant: the timer handle stays set.
AlarmKept(x) == x

\* usbHandleInputAlarm discards the timer handle of the endpoint.
AlarmDiscarded(x) == [x EXCEPT !.alarmHandle = FALSE]

\* Mutant: the request is always resubmitted at once.
ResubmitsAtOnce(delay) == FALSE

\* The test of usbHandleInputSignal: resubmit through a timer, or at once.
ResubmitsThroughAlarm(delay) == delay # 0

(***************************************************************************)
(* usbHandleInputAlarm: the resubmission timer of the endpoint fires.      *)
(***************************************************************************)
HandleInputAlarm(e) ==
  \E chosen \in SubmitChoices(TRUE) :
    LET urb == eptx[e].urb
        r == usbResubmitInputURB(urbs, pend, urb, e, chosen, <<>>)
    IN /\ eptx[e].alarmHandle
       /\ InEventLoop
       /\ eptx' = [eptx EXCEPT ![e] = AlarmDiscarded(@)]
       /\ urbs' = r.urbs
       /\ pend' = r.pend
       /\ last' = Outcome("alarm", e, IF r.ok THEN 1 ELSE 0, r.errno, r.log)
       /\ UNCHANGED <<ifaceVars, desc, xfer, hostVars, resubmitDelay, kdone, gone, sigPending, zeros,
                      closing>>

(***************************************************************************)
(* usbHandleInputSignal: the completion signal of the endpoint's monitor   *)
(* is delivered to its registered callback.                                *)
(***************************************************************************)
\* Mutant: data that arrives leaves the interval as it is.
NextDelayKeeps(e, delay, count, enqueued) ==
  IF count = 0 THEN BackoffDelay(delay) ELSE delay

\* The interval the callback arrives at for a response of the expected request.
NextDelay(e, delay, count, enqueued) ==
  IF count = 0 THEN BackoffDelay(delay)
  ELSE IF count > 0 /\ enqueued THEN Nominal(e)
  ELSE delay

\* Mutant: every response counts as consumed.
WrittenAlways(count, enqueued) == TRUE

\* written: the response was consumed and the request is to be resubmitted.
Written(count, enqueued) == count = 0 \/ (count > 0 /\ enqueued)

\* Mutant: a fault deregisters the callbacks of all the endpoints.
InputFaultOnAll(e, x, u, request, relinquished, errno, log) ==
  /\ eptx' = [f \in Endpoints |->
                IF f = e
                THEN [x[f] EXCEPT !.error = errno,
                                  !.signalHandle = FALSE,
                                  !.urb = IF relinquished THEN NULL ELSE @,
                                  !.sigHeld = IF relinquished THEN @ - 1 ELSE @]
                ELSE [x[f] EXCEPT !.signalHandle = FALSE]]
  /\ urbs' = IF request # NULL THEN Free(u, request) ELSE u
  /\ last' = Outcome("signal", e, 0, errno, log)

\* Mutant: a fault on the expected request relinquishes the signal number
\* and leaves the request with the monitor.
InputFaultKeepsUrb(e, x, u, request, relinquished, errno, log) ==
  /\ eptx' = [x EXCEPT ![e].error = errno,
                       ![e].signalHandle = FALSE,
                       ![e].sigHeld = IF relinquished THEN @ - 1 ELSE @]
  /\ urbs' = u
  /\ last' = Outcome("signal", e, 0, errno,
                     log \o (IF relinquished
                             THEN <<Call("asyncRelinquishSignalNumber", 0)>> ELSE <<>>))

\* The failure path: the request reaped is freed, the error is recorded on
\* the endpoint and the signal monitor is discarded.  It is entered with the
\* signal number relinquished and the monitor's request forgotten
\* (relinquished) when the request reaped was the expected one.
InputFault(e, x, u, request, relinquished, errno, log) ==
  /\ eptx' = [x EXCEPT ![e].error = errno,
                       ![e].signalHandle = FALSE,
                       ![e].urb = IF relinquished THEN NULL ELSE @,
                       ![e].sigHeld = IF relinquished THEN @ - 1 ELSE @]
  /\ urbs' = IF request # NULL THEN Free(u, request) ELSE u
  /\ last' = Outcome("signal", e, 0, errno,
                     log \o (IF relinquished
                             THEN <<Call("asyncRelinquishSignalNumber", 0)>> ELSE <<>>)
                         \o (IF request # NULL THEN <<Call("free", 0)>> ELSE <<>>))

\* Mutant: the timer is set and the request is submitted as well.
ScheduleAndSubmit(e, x, request, alarmSet, log) ==
  /\ eptx' = [x EXCEPT ![e].alarmHandle = TRUE]
  /\ last' = Outcome("signal", e, 1, 0, Append(log, Call("asyncSetAlarmIn", 0)))
  /\ pend' = [pend EXCEPT ![request] = @ + 1]
  /\ UNCHANGED urbs

\* The resubmission is left to a timer.
ScheduleResubmit(e, x, request, alarmSet, log) ==
  IF alarmSet
  THEN /\ eptx' = [x EXCEPT ![e].alarmHandle = TRUE]
       /\ last' = Outcome("signal", e, 1, 0, Append(log, Call("asyncSetAlarmIn", 0)))
       /\ UNCHANGED <<urbs, pend>>
  ELSE /\ InputFault(e, x, urbs, request, TRUE, ENOMEM,
                     Append(log, Call("asyncSetAlarmIn", 1)))
       /\ UNCHANGED pend

\* The request is resubmitted at once; sub is what usbResubmitInputURB gives.
ResubmitNow(e, x, request, sub) ==
  IF sub.ok
  THEN /\ eptx' = x
       /\ urbs' = sub.urbs
       /\ pend' = sub.pend
       /\ last' = Outcome("signal", e, 1, 0, sub.log)
  ELSE /\ InputFault(e, x, sub.urbs, request, TRUE, sub.errno, sub.log)
       /\ UNCHANGED pend

\* The request reaped is the one the monitor expects.
ExpectedLog(r, enqueued) ==
  IF r.response.count > 0
  THEN r.m.log \o <<Call("count", r.response.count),
                    Call("usbEnqueueInput", IF enqueued THEN 0 ELSE 1)>>
  ELSE Append(r.m.log, Call("count", r.response.count))

HandleExpected(e, r, enqueued) ==
  \E count \in {r.response.count} :
  \E delay \in {NextDelay(e, eptx[e].submitDelay, count, enqueued)} :
  \E x \in {[WithQueues(eptx, r.m) EXCEPT ![e].submitDelay = delay]} :
  \E log \in {ExpectedLog(r, enqueued)} :
     /\ zeros' = [zeros EXCEPT ![e] = IF count = 0 THEN @ + 1
                                      ELSE IF Written(count, enqueued) THEN 0 ELSE @]
     /\ IF ~Written(count, enqueued)
        THEN /\ InputFault(e, x, urbs, r.urb, TRUE,
                           IF count < 0 THEN r.response.error ELSE EAGAIN, log)
             /\ UNCHANGED pend
        ELSE IF ResubmitsThroughAlarm(delay)
        THEN \E alarmSet \in BOOLEAN : ScheduleResubmit(e, x, r.urb, alarmSet, log)
        ELSE \E chosen \in SubmitChoices(TRUE) :
               \E sub \in {usbResubmitInputURB(urbs, pend, r.urb, e, chosen, log)} :
                 ResubmitNow(e, x, r.urb, sub)

\* The callback, once usbReapResponse has returned r.
HandleReaped(e, r) ==
  /\ sigPending' = sigPending \ {e}
  /\ usbfsFile' = r.m.file
  /\ kdone' = r.m.kd
  /\ IF r.urb = NULL
     THEN \* "input URB not available"
          /\ InputFault(e, WithQueues(eptx, r.m), urbs, NULL, FALSE, r.errno, r.m.log)
          /\ UNCHANGED <<pend, zeros>>
     ELSE IF r.urb # eptx[e].urb
     THEN \* "unexpected input URB"
          /\ InputFault(e, WithQueues(eptx, r.m), urbs, r.urb, FALSE, EIO,
                        Append(r.m.log, Call("unexpected", 0)))
          /\ UNCHANGED <<pend, zeros>>
     ELSE \E enqueued \in Choice(r.response.count > 0) : HandleExpected(e, r, enqueued)
  /\ UNCHANGED <<claimed, desc, xfer, hostVars, resubmitDelay, gone, closing>>

HandleInputSignal(e) ==
  /\ eptx[e].signalHandle
  /\ e \in sigPending
  /\ InEventLoop
  /\ \E openErr \in OpenAnswersNow, filtersAccept \in BOOLEAN :
       \E r \in {usbReapResponse(Machine(<<>>), e, FALSE, openErr, filtersAccept)} :
         HandleReaped(e, r)

(***************************************************************************)
(* usbDeallocateEndpointExtension: the teardown of one endpoint, as the    *)
(* device handle is destroyed.                                             *)
(***************************************************************************)
\* Mutant: the signal monitor stays registered.
KeepSignalMonitor(x) == x

\* usbDeallocateEndpointExtension cancels the signal monitor of the endpoint.
CancelSignalMonitor(x) == [x EXCEPT !.signalHandle = FALSE]

TeardownEndpoint(e) ==
  LET x == eptx[e]
      discards == ~x.alarmHandle /\ x.urb # NULL
      d == IF discards THEN DiscardAnswer(usbfsFile, x.urb) ELSE EINVAL
      killed == discards /\ d = 0
      l1 == IF x.alarmHandle THEN <<Call("asyncCancelRequest", 0)>>
            ELSE IF discards THEN <<Call("DISCARDURB", d)>>
            ELSE <<>>
      l2 == IF x.urb # NULL
            THEN l1 \o <<Call("asyncRelinquishSignalNumber", 0), Call("free", 0)>>
            ELSE l1
      l3 == IF x.signalHandle THEN Append(l2, Call("asyncCancelRequest", 0)) ELSE l2
      urbs1 == IF killed
               THEN [urbs EXCEPT ![x.urb].status = -ENOENT, ![x.urb].len = 0]
               ELSE urbs
  IN /\ x.st = "present"
     /\ closing' = TRUE
     /\ pend' = IF killed THEN [pend EXCEPT ![x.urb] = @ - 1] ELSE pend
     /\ kdone' = IF killed THEN Append(kdone, x.urb) ELSE kdone
     /\ sigPending' = IF killed THEN sigPending \cup Signals(x.urb) ELSE sigPending
     /\ urbs' = IF x.urb # NULL THEN Free(urbs1, x.urb) ELSE urbs1
     /\ eptx' = [eptx EXCEPT ![e] =
                   CancelSignalMonitor(
                     [x EXCEPT !.st = "destroyed",
                               !.alarmHandle = FALSE,
                               !.sigHeld = IF x.urb # NULL THEN @ - 1 ELSE @,
                               !.urb = NULL,
                               !.completedRequests = <<>>])]
     /\ last' = Outcome("teardown", e, 1, 0, l3)
     /\ UNCHANGED <<ifaceVars, desc, xfer, hostVars, resubmitDelay, gone, zeros>>

(***************************************************************************)
(* usbDeallocateDeviceExtension, once the endpoints are torn down: the     *)
(* node is closed, and the kernel drops what the handle had submitted.     *)
(***************************************************************************)
CloseDevice ==
  /\ \A e \in Endpoints : eptx[e].st # "present"
  /\ ~closing \/ usbfsFile # NoFile
  /\ closing' = TRUE
  /\ usbfsFile' = NoFile
  /\ claimed' = {}
  /\ pend' = [u \in UrbIds |-> 0]
  /\ kdone' = <<>>
  /\ last' = Outcome("close", 0, 1, 0,
                     IF usbfsFile # NoFile THEN <<Call("close", 0)>> ELSE <<>>)
  /\ UNCHANGED <<desc, xfer, hostVars, resubmitDelay, urbs, gone, eptx, sigPending, zeros>>

(***************************************************************************)
(* The input monitor: Prepare, the completion-signal and timer callbacks,  *)
(* teardown, and the kernel.                                               *)
(***************************************************************************)
NextMonitor ==
  \/ KernelComplete
  \/ Unplug
  \/ ClearHalt
  \/ \E e \in Endpoints : Prepare(e)
  \/ \E e \in Endpoints : HandleInputSignal(e)
  \/ \E e \in Endpoints : HandleInputAlarm(e)
  \/ \E e \in Endpoints : TeardownEndpoint(e)
  \/ CloseDevice

SpecMonitor == Init /\ [][NextMonitor]_vars

(***************************************************************************)
(* The input monitor without faults: the callbacks run to their successful *)
(* end (the expected request is reaped with success, its data is enqueued, *)
(* the timer is scheduled, the resubmission is accepted), the device stays *)
(* and the handle is not torn down.  The asynchronous event loop delivers  *)
(* every pending signal and every pending timer: weak fairness on both     *)
(* callbacks.                                                              *)
(***************************************************************************)
SignalHandled(e) == HandleInputSignal(e) /\ last'.ret = 1

AlarmHandled(e) == HandleInputAlarm(e) /\ last'.ret = 1

NextFaultless ==
  \/ KernelComplete
  \/ ClearHalt
  \/ \E e \in Endpoints : Prepare(e)
  \/ \E e \in Endpoints : SignalHandled(e)
  \/ \E e \in Endpoints : AlarmHandled(e)

SpecFaultless ==
  /\ Init
  /\ [][NextFaultless]_vars
  /\ \A e \in Endpoints : WF_vars(SignalHandled(e)) /\ WF_vars(AlarmHandled(e))

(***************************************************************************)
(* The request primitives on synchronous endpoints: submit, reap, cancel,  *)
(* and the kernel.                                                         *)
(***************************************************************************)
NextRequests ==
  \/ KernelComplete
  \/ Unplug
  \/ \E e \in Endpoints : UseEndpoint(e)
  \/ \E e \in Endpoints : SubmitRequest(e)
  \/ \E e \in Endpoints : ReapResponse(e)
  \/ \E u \in UrbIds : CancelRequest(u)

SpecRequests == InitDevice /\ [][NextRequests]_vars

(***************************************************************************)
(* usbCancelRequest as a callee: the discard, the loop and the free, with  *)
(* what they leave of the kernel's lists, the queues and the requests.     *)
(***************************************************************************)
usbCancelRequest(m, request, openErr) ==
  LET o == usbOpenUsbfsFile(m.file, openErr)
      d == DiscardAnswer(o.file, request)
      m0 == [m EXCEPT !.file = o.file, !.log = @ \o o.log]
      m1 == [m0 EXCEPT !.log = Append(@, Call("DISCARDURB", d)),
                       !.kd = IF d = 0 THEN Append(@, request) ELSE @]
      c == usbCancelLoop(m1, request, d # ENODEV)
      urbs1 == IF d = 0
               THEN [urbs EXCEPT ![request].status = -ENOENT, ![request].len = 0]
               ELSE urbs
  IN IF ~o.ok
     THEN [ret |-> 0, m |-> m0, urbs |-> urbs, pend |-> pend, sig |-> sigPending]
     ELSE [ret |-> IF c.found THEN 1 ELSE 0,
           m |-> IF c.found THEN [c.m EXCEPT !.log = Append(@, Call("free", 0))]
                 ELSE c.m,
           urbs |-> IF c.found THEN Free(urbs1, request) ELSE urbs1,
           pend |-> IF d = 0 THEN [pend EXCEPT ![request] = @ - 1] ELSE pend,
           sig |-> IF d = 0 THEN sigPending \cup Signals(request) ELSE sigPending]

(***************************************************************************)
(* usbReadEndpoint on an Interrupt endpoint: usbInterruptTransfer submits  *)
(* one request and then polls for it.  Between two polls it sleeps in      *)
(* asyncWait, and the kernel and the callbacks run.                        *)
(***************************************************************************)
\* The capacity of the caller's buffer.
BufferLength == 1

\* The timeout of the call is 0, or a deadline that has not passed yet.
Deadlines == {"zero", "later"}

InterruptBegin(e) ==
  \E openErr \in OpenAnswersNow, deadline \in Deadlines :
  \E alloc \in Choice(openErr = 0) :
  \E chosen \in SubmitChoices(openErr = 0 /\ alloc) :
    LET o == usbOpenUsbfsFile(usbfsFile, openErr)
        urb == NextUrb
        made == usbMakeURB(e, 0, "sync")
        sub == usbSubmitURB(made.type, desc[e].transfer,
                            SubmitAnswersOf(o.file, chosen), o.log)
        ok == o.ok /\ alloc /\ sub.ok
    IN /\ desc[e].transfer = "Interrupt"
       /\ eptx[e].st = "present"
       /\ xfer = NoTransfer
       /\ ~closing
       /\ urb <= MaxUrbs
       /\ usbfsFile' = o.file
       /\ urbs' = IF ok THEN [urbs EXCEPT ![urb] = [made EXCEPT !.type = sub.type]]
                  ELSE urbs
       /\ pend' = IF ok THEN [pend EXCEPT ![urb] = @ + 1] ELSE pend
       /\ xfer' = IF ok THEN [urb |-> urb, ep |-> e, zero |-> deadline = "zero", asleep |-> FALSE]
                  ELSE NoTransfer
       /\ last' = IF ok THEN Outcome("interruptTransfer", e, urb, 0, sub.log)
                  ELSE Outcome("readEndpoint", e, -1,
                               IF ~o.ok THEN openErr
                               ELSE IF ~alloc THEN ENOMEM ELSE sub.errno,
                               IF o.ok /\ alloc THEN sub.log ELSE o.log)
       /\ UNCHANGED <<claimed, desc, hostVars, resubmitDelay, kdone, gone, eptx,
                      sigPending, zeros, closing>>

\* The result of usbReadEndpoint for a count its transfer produced: the
\* input filters see every count but -1, and their rejection is an I/O error.
FiltersSkipped(count) == FALSE

FiltersApplied(count) == count # -1

ReadResult(count, errno, filtersAccept) ==
  IF FiltersApplied(count) /\ ~filtersAccept
  THEN [count |-> -1, errno |-> EIO]
  ELSE [count |-> count, errno |-> errno]

\* The poll found the request completed: it leaves its queue and is freed.
InterruptCompleted(r, filtersAccept) ==
  \E status \in {urbs[xfer.urb].status} :
  \E count \in {IF status = 0 THEN MIN(urbs[xfer.urb].len, BufferLength) ELSE -1} :
  \E res \in {ReadResult(count, Abs(status), filtersAccept)} :
    /\ eptx' = WithQueues(eptx, [r.m EXCEPT !.q[xfer.ep] = deleteItem(@, xfer.urb)])
    /\ kdone' = r.m.kd
    /\ urbs' = Free(urbs, xfer.urb)
    /\ xfer' = NoTransfer
    /\ last' = Outcome("readEndpoint", xfer.ep, res.count, res.errno,
                       r.m.log \o <<Call("status", Abs(status)), Call("free", 0)>>
                         \o (IF FiltersApplied(count)
                             THEN <<Call("usbApplyInputFilters",
                                         IF filtersAccept THEN 0 ELSE 1)>>
                             ELSE <<>>))
    /\ UNCHANGED <<pend, sigPending>>

\* Mutant: at the deadline the request is left as it is.
InterruptGivesUp(r) ==
  /\ eptx' = WithQueues(eptx, r.m)
  /\ kdone' = r.m.kd
  /\ xfer' = NoTransfer
  /\ last' = Outcome("readEndpoint", xfer.ep, -1, ETIMEDOUT, r.m.log)
  /\ UNCHANGED <<urbs, pend, sigPending>>

\* usbCancelRequest on a request that has been freed reads urb->endpoint
\* from released memory: besides going on as if the request were intact, it
\* may find no endpoint for what it reads, and then does nothing but the
\* discard.
usbCancelDangling(m, request) ==
  [ret |-> 0,
   m |-> [m EXCEPT !.log = Append(@, Call("DISCARDURB", DiscardAnswer(m.file, request)))],
   urbs |-> urbs, pend |-> pend, sig |-> sigPending]

\* The deadline has passed: the request is cancelled.
InterruptTimedOut(r) ==
  \E intact \in (IF urbs[xfer.urb].st = "freed" THEN BOOLEAN ELSE {TRUE}) :
  \E c \in {IF intact THEN usbCancelRequest(r.m, xfer.urb, 0)
                      ELSE usbCancelDangling(r.m, xfer.urb)} :
    /\ eptx' = WithQueues(eptx, c.m)
    /\ kdone' = c.m.kd
    /\ urbs' = c.urbs
    /\ pend' = c.pend
    /\ sigPending' = c.sig
    /\ xfer' = NoTransfer
    /\ last' = Outcome("readEndpoint", xfer.ep, -1, ETIMEDOUT, c.m.log)

\* Mutant: the transfer submits its request again before it sleeps.
InterruptResubmits(r) ==
  /\ eptx' = WithQueues(eptx, r.m)
  /\ kdone' = r.m.kd
  /\ pend' = [pend EXCEPT ![xfer.urb] = @ + 1]
  /\ last' = Outcome("interruptTransfer", xfer.ep, xfer.urb, 0,
                     Append(r.m.log, Call("asyncWait", desc[xfer.ep].bInterval + 1)))
  /\ xfer' = [xfer EXCEPT !.asleep = TRUE]
  /\ UNCHANGED <<urbs, sigPending>>

\* Neither: the transfer sleeps for one interval in asyncWait, where the
\* event loop runs the callbacks that are due.
InterruptSleeps(r) ==
  /\ eptx' = WithQueues(eptx, r.m)
  /\ kdone' = r.m.kd
  /\ last' = Outcome("interruptTransfer", xfer.ep, xfer.urb, 0,
                     Append(r.m.log, Call("asyncWait", desc[xfer.ep].bInterval + 1)))
  /\ xfer' = [xfer EXCEPT !.asleep = TRUE]
  /\ UNCHANGED <<urbs, pend, sigPending>>

\* Mutant: a call without timeout may find its deadline not passed.
ExpiriesAny(zero) == BOOLEAN

\* !timeout || afterTimePeriod(&period, NULL): what the test can give.
Expiries(zero) == IF zero THEN {TRUE} ELSE BOOLEAN

\* The clock is asked only by a call that has a timeout.
AfterTimePeriod(r, zero, expired) ==
  IF zero THEN r
  ELSE [r EXCEPT !.m.log = Append(@, Call("afterTimePeriod", IF expired THEN 1 ELSE 0))]

InterruptPoll ==
  /\ xfer # NoTransfer
  /\ ~closing
  /\ \E r \in {usbReapUrb(Machine(<<>>), FALSE, 0)} :
       IF r.ok /\ InQueue(r.m.q[xfer.ep], xfer.urb)
       THEN \E filtersAccept \in Choice(urbs[xfer.urb].status = 0) :
              InterruptCompleted(r, filtersAccept)
       ELSE \E expired \in Expiries(xfer.zero) :
            \E t \in {AfterTimePeriod(r, xfer.zero, expired)} :
              IF expired
              THEN InterruptTimedOut(t)
              ELSE InterruptSleeps(t)
  /\ UNCHANGED <<ifaceVars, desc, hostVars, resubmitDelay, gone, zeros, closing>>

(***************************************************************************)
(* usbBulkTransfer: one USBDEVFS_BULK request.  The kernel answers with    *)
(* the count transferred or with an errno.                                 *)
(***************************************************************************)
BulkAnswers ==
  {[count |-> 0, errno |-> 0], [count |-> 1, errno |-> 0],
   [count |-> -1, errno |-> ETIMEDOUT], [count |-> -1, errno |-> EPROTO]}

BulkAnswer(file, ans) ==
  IF file = NoFile THEN [count |-> -1, errno |-> EBADF]
  ELSE IF gone THEN [count |-> -1, errno |-> ENODEV]
  ELSE ans

\* Mutant: the timeout is renamed whatever the direction.
TimeoutRenamedAlways(direction, errno) ==
  IF errno = ETIMEDOUT THEN EAGAIN ELSE errno

\* The errno usbBulkTransfer leaves for a failed request.
TimeoutRenamed(direction, errno) ==
  IF direction = "Input" /\ errno = ETIMEDOUT THEN EAGAIN ELSE errno

usbBulkTransfer(file, openErr, direction, ans) ==
  LET o == usbOpenUsbfsFile(file, openErr)
      a == BulkAnswer(o.file, ans)
      errno == TimeoutRenamed(direction, a.errno)
      l1 == Append(o.log, Ioctl("BULK", a.errno, direction))
  IN IF ~o.ok
     THEN [count |-> -1, errno |-> openErr, file |-> o.file, log |-> o.log]
     ELSE IF a.count # -1
     THEN [count |-> a.count, errno |-> 0, file |-> o.file, log |-> l1]
     ELSE [count |-> -1, errno |-> errno, file |-> o.file,
           log |-> IF errno # EAGAIN
                   THEN Append(l1, Ioctl("logSystemError", errno, ""))
                   ELSE l1]

\* The transfer types an endpoint descriptor may declare.
TransferTypes == {"Control", "Isochronous", "Interrupt", "Bulk"}

\* usbReadEndpoint and usbWriteEndpoint serve Interrupt and Bulk endpoints.
Unsupported(transfer) == transfer \notin {"Interrupt", "Bulk"}

(***************************************************************************)
(* usbReadEndpoint on an input endpoint that is not Interrupt.             *)
(***************************************************************************)
ReadEndpoint(e) ==
  \E transfer \in {desc[e].transfer} :
  \E openErr \in (IF Unsupported(transfer) THEN {0} ELSE OpenAnswersNow) :
  \E ans \in (IF openErr = 0 /\ ~Unsupported(transfer) THEN BulkAnswers
              ELSE {[count |-> 0, errno |-> 0]}) :
  \E b \in {IF Unsupported(transfer)
            THEN [count |-> -1, errno |-> ENOSYS, file |-> usbfsFile, log |-> <<>>]
            ELSE usbBulkTransfer(usbfsFile, openErr, "Input", ans)} :
  \E filtersAccept \in Choice(FiltersApplied(b.count)) :
  \E res \in {ReadResult(b.count, b.errno, filtersAccept)} :
    /\ desc[e].transfer # "Interrupt"
    /\ eptx[e].st = "present"
    /\ xfer = NoTransfer
    /\ ~closing
    /\ usbfsFile' = b.file
    /\ last' = Outcome("readEndpoint", e, res.count, res.errno,
                       b.log \o (IF FiltersApplied(b.count)
                                 THEN <<Call("usbApplyInputFilters",
                                             IF filtersAccept THEN 0 ELSE 1)>>
                                 ELSE <<>>))
    /\ UNCHANGED <<claimed, urbVars>>

(***************************************************************************)
(* usbWriteEndpoint on an output endpoint, whatever type it declares.      *)
(***************************************************************************)
WriteEndpoint ==
  \E transfer \in TransferTypes :
  \E openErr \in (IF Unsupported(transfer) THEN {0} ELSE OpenAnswersNow) :
  \E ans \in (IF openErr = 0 /\ ~Unsupported(transfer) THEN BulkAnswers
              ELSE {[count |-> 0, errno |-> 0]}) :
  \E b \in {IF Unsupported(transfer)
            THEN [count |-> -1, errno |-> ENOSYS, file |-> usbfsFile, log |-> <<>>]
            ELSE usbBulkTransfer(usbfsFile, openErr, "Output", ans)} :
    /\ xfer = NoTransfer
    /\ ~closing
    /\ usbfsFile' = b.file
    /\ last' = Outcome("writeEndpoint", 0, b.count, b.errno, b.log)
    /\ UNCHANGED <<claimed, urbVars>>

(***************************************************************************)
(* The transfers of a protocol driver that monitors one input endpoint and *)
(* uses the other synchronously.  While a synchronous transfer sleeps, the *)
(* driver makes no other call; the kernel and the callbacks go on.         *)
(***************************************************************************)
SyncEndpoints == {e \in Endpoints : desc[e].transfer = "Interrupt"}

MonitorEndpoints == Endpoints \ SyncEndpoints

Idle == xfer = NoTransfer

NextTransfers ==
  \/ KernelComplete
  \/ \E e \in SyncEndpoints : UseEndpoint(e)
  \/ \E e \in MonitorEndpoints : Idle /\ Prepare(e)
  \/ \E e \in MonitorEndpoints : HandleInputSignal(e)
  \/ \E e \in MonitorEndpoints : HandleInputAlarm(e)
  \/ \E e \in SyncEndpoints : Idle /\ SubmitRequest(e)
  \/ \E e \in SyncEndpoints : Idle /\ ReapResponse(e)
  \/ \E u \in UrbIds : Idle /\ CancelRequest(u)
  \/ \E e \in SyncEndpoints : InterruptBegin(e)
  \/ InterruptPoll

SpecTransfers == InitDevice /\ [][NextTransfers]_vars

(***************************************************************************)
(* The synchronous transfers of a protocol driver on a platform without    *)
(* completion signals: reads of both input endpoints and writes.           *)
(***************************************************************************)
NextSync ==
  \/ KernelComplete
  \/ Unplug
  \/ \E e \in Endpoints : UseEndpoint(e)
  \/ \E e \in Endpoints : InterruptBegin(e)
  \/ InterruptPoll
  \/ \E e \in Endpoints : ReadEndpoint(e)
  \/ WriteEndpoint

SpecSync == InitDevice /\ [][NextSync]_vars

(***************************************************************************)
(* A protocol driver that monitors its input endpoints and also submits    *)
(* requests of its own on them (usbSubmitRequest): the completion callback *)
(* of an endpoint then reaps whatever request of the endpoint completed    *)
(* first.                                                                  *)
(***************************************************************************)
NextShared ==
  \/ KernelComplete
  \/ ClearHalt
  \/ \E e \in Endpoints : Prepare(e)
  \/ \E e \in Endpoints : SubmitRequest(e)
  \/ \E e \in Endpoints : HandleInputSignal(e)
  \/ \E e \in Endpoints : HandleInputAlarm(e)

SpecShared == InitDevice /\ [][NextShared]_vars

(***************************************************************************)
(* The whole life of one input endpoint: it is prepared and monitored, the *)
(* protocol driver submits, reaps and cancels requests of its own on it    *)
(* and reads from it synchronously, and the handle is torn down.  The      *)
(* calls of the driver do not overlap; the callbacks run between them and  *)
(* in the sleep of a synchronous transfer.                                 *)
(***************************************************************************)
NextLifetime ==
  \/ KernelComplete
  \/ Unplug
  \/ ClearHalt
  \/ \E e \in SyncEndpoints : Idle /\ Prepare(e)
  \/ \E e \in SyncEndpoints : Idle /\ SubmitRequest(e)
  \/ \E e \in SyncEndpoints : Idle /\ ReapResponse(e)
  \/ \E u \in UrbIds : Idle /\ CancelRequest(u)
  \/ \E e \in SyncEndpoints : InterruptBegin(e)
  \/ InterruptPoll
  \/ \E e \in SyncEndpoints : HandleInputSignal(e)
  \/ \E e \in SyncEndpoints : HandleInputAlarm(e)
  \/ \E e \in SyncEndpoints : Idle /\ TeardownEndpoint(e)
  \/ Idle /\ CloseDevice

SpecLifetime == InitDevice /\ [][NextLifetime]_vars

(***************************************************************************)
(* Device discovery.  The files below the usbfs root: what stat() and the  *)
(* reading of the device descriptor give for each path.                    *)
(***************************************************************************)
MaxNodes == 3

Digits == {"0", "1", "2", "3", "4", "5", "6", "7", "8", "9"}

\* A directory (which opendir may refuse), a regular or character-special
\* file whose descriptor reads in full or short, a file of another type, and
\* a name stat() fails on.
Kinds ==
  {[type |-> "dir", descriptor |-> "ok"], [type |-> "dir", descriptor |-> "noopen"],
   [type |-> "reg", descriptor |-> "ok"], [type |-> "chr", descriptor |-> "ok"],
   [type |-> "reg", descriptor |-> "short"],
   [type |-> "fifo", descriptor |-> "none"], [type |-> "nostat", descriptor |-> "none"]}

Present == {p \in Paths : fs[p].type # "absent"}

Parent(p) == SubSeq(p, 1, Len(p) - 1)

\* Everything that belongs to one device handle: discovery leaves it alone.
deviceVars ==
  <<usbfsFile, claimed, desc, resubmitDelay, urbs, pend, kdone, gone, eptx,
    sigPending, zeros, closing, xfer>>

(***************************************************************************)
(* strspn(name, "0123456789"): the length of the leading run of digits.    *)
(***************************************************************************)
RECURSIVE strspn(_, _)
strspn(s, accept) ==
  IF s = <<>> \/ Head(s) \notin accept THEN 0
  ELSE 1 + strspn(Tail(s), accept)

\* Mutant: every name passes.
IsNumberAny(name) == TRUE

\* The test of usbAddHostDevices on the name of a directory entry.
IsNumber(name) == strspn(name, Digits) = Len(name)

\* readdir: the entries of directory d, in the order the directory gives
\* them (order runs over all names).
readdir(d, order) ==
  IF Len(d) < MaxDepth
  THEN SelectSeq(order, LAMBDA n : fs[Append(d, n)].type # "absent")
  ELSE <<>>

\* The orders a directory may give its entries in: two opposite ones.
Forward == <<<<"1">>, <<"1", "x">>, <<"2">>>>

Reverse(s) == [i \in 1..Len(s) |-> s[Len(s) + 1 - i]]

Orders == {Forward, Reverse(Forward)}

\* usbReadHostDeviceDescriptor: the descriptor was opened and read in full.
usbReadHostDeviceDescriptor(node) == node.descriptor = "ok"

\* Mutant: a host device is entered twice.
EnqueueHostTwice(items, path) == enqueueItem(enqueueItem(items, path), path)

\* enqueueItem(usbHostDevices, host).
EnqueueHost(items, path) == enqueueItem(items, path)

\* Mutant: a descriptor that cannot be read fails the pass.
UnreadableFails == FALSE

\* What usbAddHostDevice returns for a node whose descriptor cannot be read
\* (ok = 1: the node is dropped and the pass goes on).
UnreadableDropped == TRUE

(***************************************************************************)
(* usbAddHostDevice.  st is the pass so far: the inventory, the number of  *)
(* calls of usbAddHostDevice and the log; env gives the directory order    *)
(* and the call at which memory runs out (failAt, 0 for never) in malloc   *)
(* or in enqueueItem (failIn).                                             *)
(***************************************************************************)
usbAddHostDevice(path, env, st) ==
  LET k == st.calls + 1
      s1 == [st EXCEPT !.calls = k]
  IN IF env.failAt = k /\ env.failIn = "malloc"
     THEN [s1 EXCEPT !.ok = FALSE, !.log = Append(@, Ioctl("malloc", ENOMEM, path))]
     ELSE IF ~usbReadHostDeviceDescriptor(fs[path])
     THEN [s1 EXCEPT !.ok = UnreadableDropped,
                     !.log = Append(@, Ioctl("usbReadHostDeviceDescriptor", EIO, path))]
     ELSE IF env.failAt = k /\ env.failIn = "enqueueItem"
     THEN [s1 EXCEPT !.ok = FALSE, !.log = Append(@, Ioctl("enqueueItem", ENOMEM, path))]
     ELSE [s1 EXCEPT !.ok = TRUE, !.items = EnqueueHost(@, path),
                     !.log = Append(@, Ioctl("enqueueItem", 0, path))]

(***************************************************************************)
(* usbAddHostDevices: the pass over one directory, and its loop over the   *)
(* entries that readdir has yet to give.                                   *)
(***************************************************************************)
RECURSIVE usbAddHostDevices(_, _, _)
RECURSIVE usbScanEntries(_, _, _, _)
usbScanEntries(root, entries, env, st) ==
  IF entries = <<>> THEN st
  ELSE LET name == Head(entries)
           path == Append(root, name)
           type == fs[path].type
           r == IF ~IsNumber(name) \/ type = "nostat" THEN st
                ELSE IF type = "dir" THEN usbAddHostDevices(path, env, st)
                ELSE IF type \in {"reg", "chr"} THEN usbAddHostDevice(path, env, st)
                ELSE st
       IN IF ~r.ok THEN r
          ELSE usbScanEntries(root, Tail(entries), env, r)

usbAddHostDevices(root, env, st) ==
  IF (root = <<>> /\ ~env.rootOpens) \/ (root # <<>> /\ fs[root].descriptor = "noopen")
  THEN [st EXCEPT !.ok = FALSE, !.log = Append(@, Ioctl("opendir", ENOENT, root))]
  ELSE usbScanEntries(root, readdir(root, env.order), env,
                      [st EXCEPT !.ok = TRUE, !.log = Append(@, Ioctl("opendir", 0, root))])

\* The environment of one pass.
Environments ==
  {x \in [order : Orders, rootOpens : BOOLEAN, failAt : 0..MaxNodes,
          failIn : {"malloc", "enqueueItem"}] :
     x.failAt = 0 => x.failIn = "malloc"}

\* The host devices a chooser may want: the last of the inventory, or none.
Wanted(q) == {q.items[i] : i \in {Len(q.items)} \ {0}} \cup {<<>>}

\* Mutant: the inventory is never taken as present.
HasInventoryNever(q) == FALSE

\* The test of usbFindDevice and usbForgetDevices: usbHostDevices is not NULL.
HasInventory(q) == q.queue

\* The inventory is what a pass would find now.
UpToDate ==
  \E env \in Environments :
    /\ env.rootOpens /\ env.failAt = 0
    /\ usbHostDevices.items =
         usbAddHostDevices(<<>>, env, [ok |-> FALSE, items |-> <<>>, calls |-> 0,
                                      log |-> <<>>]).items

\* While an inventory is kept, the files change until it is out of date.
MayChange == ~HasInventory(usbHostDevices) \/ UpToDate

\* processQueue with usbTestHostDevice: the first host device the chooser
\* accepts (wanted), or none.
TestHostDevices(items, wanted) ==
  IF InQueue(items, wanted) THEN 1 ELSE NULL

\* A file appears below the root or in a directory, or a leaf disappears.
Plug ==
  /\ MayChange
  /\ Cardinality(Present) < MaxNodes
  /\ \E p \in Paths \ Present, k \in Kinds :
    /\ Len(p) > 1 => fs[Parent(p)].type = "dir"
    /\ fs' = [fs EXCEPT ![p] = k]
    /\ last' = NoCall
    /\ UNCHANGED <<deviceVars, usbHostDevices, sysfs, submit>>

Remove ==
  /\ MayChange
  /\ \E p \in Present :
    /\ \A c \in Present : Len(c) > Len(p) => Parent(c) # p
    /\ fs' = [fs EXCEPT ![p] = Absent]
    /\ last' = NoCall
    /\ UNCHANGED <<deviceVars, usbHostDevices, sysfs, submit>>

(***************************************************************************)
(* usbFindDevice: builds the inventory if there is none, then offers its   *)
(* host devices to the chooser.                                            *)
(***************************************************************************)
\* Mutant: a pass that fails leaves what it had entered as the inventory.
usbBuildKeepsPartial(queueMade, mounted, env) ==
  IF ~queueMade THEN [q |-> NoInventory, log |-> <<Ioctl("newQueue", ENOMEM, <<>>)>>]
  ELSE IF ~mounted
  THEN [q |-> NoInventory,
        log |-> <<Ioctl("newQueue", 0, <<>>), Ioctl("usbGetUsbfs", ENOENT, <<>>),
                  Ioctl("deallocateQueue", 0, <<>>)>>]
  ELSE LET r == usbAddHostDevices(<<>>, env,
                  [ok |-> FALSE, items |-> <<>>, calls |-> 0,
                   log |-> <<Ioctl("newQueue", 0, <<>>), Ioctl("usbGetUsbfs", 0, <<>>)>>])
       IN [q |-> [queue |-> TRUE, items |-> r.items], log |-> r.log]

usbBuildInventory(queueMade, mounted, env) ==
  IF ~queueMade THEN [q |-> NoInventory, log |-> <<Ioctl("newQueue", ENOMEM, <<>>)>>]
  ELSE IF ~mounted
  THEN [q |-> NoInventory,
        log |-> <<Ioctl("newQueue", 0, <<>>), Ioctl("usbGetUsbfs", ENOENT, <<>>),
                  Ioctl("deallocateQueue", 0, <<>>)>>]
  ELSE LET r == usbAddHostDevices(<<>>, env,
                  [ok |-> FALSE, items |-> <<>>, calls |-> 0,
                   log |-> <<Ioctl("newQueue", 0, <<>>), Ioctl("usbGetUsbfs", 0, <<>>)>>])
       IN IF r.ok THEN [q |-> [queue |-> TRUE, items |-> r.items], log |-> r.log]
          ELSE [q |-> NoInventory, log |-> Append(r.log, Ioctl("deallocateQueue", 0, <<>>))]

FindDevice ==
  \E queueMade \in Choice(~HasInventory(usbHostDevices)) :
  \E mounted \in Choice(~HasInventory(usbHostDevices) /\ queueMade) :
  \E env \in (IF ~HasInventory(usbHostDevices) /\ queueMade /\ mounted THEN Environments
              ELSE {CHOOSE x \in Environments : TRUE}) :
  \E b \in {IF HasInventory(usbHostDevices) THEN [q |-> usbHostDevices, log |-> <<>>]
            ELSE usbBuildInventory(queueMade, mounted, env)} :
  \E wanted \in Wanted(b.q) :
    /\ usbHostDevices' = b.q
    /\ last' = Outcome("findDevice", 0,
                       IF HasInventory(b.q) THEN TestHostDevices(b.q.items, wanted)
                       ELSE NULL,
                       0,
                       IF HasInventory(b.q)
                       THEN Append(b.log, Ioctl("processQueue", 0, wanted))
                       ELSE b.log)
    /\ UNCHANGED <<deviceVars, fs, sysfs, submit>>

(***************************************************************************)
(* usbForgetDevices.                                                       *)
(***************************************************************************)
ForgetDevices ==
  /\ usbHostDevices' = NoInventory
  /\ last' = Outcome("forgetDevices", 0, 0, 0,
                     IF HasInventory(usbHostDevices)
                     THEN <<Ioctl("deallocateQueue", 0, <<>>)>> ELSE <<>>)
  /\ UNCHANGED <<deviceVars, fs, sysfs, submit>>

NextDiscovery == Plug \/ Remove \/ FindDevice \/ ForgetDevices

SpecDiscovery == InitDevice /\ [][NextDiscovery]_vars

(***************************************************************************)
(* usbMakeSysfsPath: from the path of a usbfs node to the path of its      *)
(* device in sysfs.  A path is the sequence of its names, each written     *)
(* after a delimiter; a name is a sequence of characters.                  *)
(***************************************************************************)
\* The bus and device numbers of the nodes given to the function.
MaxBusNumber == 3
MaxDeviceNumber == 300

\* The width of unsigned int.
WordBits == 32

\* An unsigned int: its bits, bit 0 the lowest.  n is below 2^(WordBits-1).
ToWord(n) ==
  [i \in 0..(WordBits - 1) |-> IF i < WordBits - 1 THEN (n \div 2^i) % 2 ELSE 0]

\* w - 1 in unsigned arithmetic: zero wraps to the largest value.
Decrement(w) ==
  LET ones == {i \in DOMAIN w : w[i] = 1} IN
  IF ones = {} THEN [i \in DOMAIN w |-> 1]
  ELSE LET k == CHOOSE i \in ones : \A j \in ones : i <= j IN
       [i \in DOMAIN w |-> IF i < k THEN 1 ELSE IF i = k THEN 0 ELSE w[i]]

\* w << n: the bits shifted out are lost.
ShiftLeft(w, n) == [i \in DOMAIN w |-> IF i < n THEN 0 ELSE w[i - n]]

\* a | b
BitOr(a, b) == [i \in DOMAIN a |-> IF a[i] = 1 \/ b[i] = 1 THEN 1 ELSE 0]

\* Mutant: the minor number is taken from the device number alone.
minorOfDevice(bus, device) == Decrement(device)

\* unsigned int minor = ((bus - 1) << 7) | (device - 1)
minor(bus, device) == BitOr(ShiftLeft(Decrement(bus), 7), Decrement(device))

DigitChars == <<"0", "1", "2", "3", "4", "5", "6", "7", "8", "9">>

DigitValue(c) == CHOOSE k \in 0..9 : DigitChars[k + 1] = c

\* The number a run of decimal digits denotes.
RECURSIVE Decimal(_)
Decimal(s) ==
  IF s = <<>> THEN 0
  ELSE 10 * Decimal(SubSeq(s, 1, Len(s) - 1)) + DigitValue(s[Len(s)])

\* The conversion %u of sscanf on the characters s: it takes the leading
\* digits, and fails when there is none.
ScanUnsigned(s) ==
  LET k == strspn(s, Digits) IN
  [ok |-> k > 0, value |-> ToWord(Decimal(SubSeq(s, 1, k))),
   rest |-> SubSeq(s, k + 1, Len(s))]

\* sscanf(tail, "/%u/%u%c", &bus, &device, &extra) on the last two names of
\* the path: the number of conversions made, and what they stored.
sscanfTail(busName, deviceName) ==
  LET b == ScanUnsigned(busName)
      d == ScanUnsigned(deviceName)
  IN  [count |-> IF ~b.ok THEN 0
                 ELSE IF b.rest # <<>> \/ ~d.ok THEN 1
                 ELSE IF d.rest # <<>> THEN 3
                 ELSE 2,
       bus |-> b.value, device |-> d.value]

\* The three formats: the text snprintf writes is the format with these
\* numbers in it (the first is cut after the minor number by %n).
SysfsFormats == 1..3

SysfsCandidate(format, bus, device) ==
  [format |-> format,
   numbers |-> IF format = 1 THEN <<minor(bus, device)>> ELSE <<bus, device>>]

\* The names the kernel gives to bus directories and device nodes (%03d).
Decimal3(n) ==
  <<DigitChars[(n \div 100) + 1], DigitChars[((n \div 10) % 10) + 1], DigitChars[(n % 10) + 1]>>

BusNames == {Decimal3(n) : n \in 0..MaxBusNumber} \cup {<<"x">>, <<"1", "x">>}

DeviceNames == {Decimal3(n) : n \in 0..MaxDeviceNumber} \cup {<<"x">>, <<"1", "x">>}

\* The paths given: a device node in a bus directory, under the usbfs root
\* or alone, and a path of one name.
UsbfsPaths ==
  {<<b, d>> : b \in BusNames, d \in DeviceNames}
    \cup {<<<<"u", "s", "b">>, b, d>> : b \in BusNames, d \in DeviceNames}
    \cup {<<d>> : d \in DeviceNames}

\* The call: exists is the set of formats whose path access() finds, and
\* strdup tells whether the copy of the path could be allocated.
usbMakeSysfsPath(usbfsPath, exists, strdup) ==
  IF Len(usbfsPath) < 2 THEN [tried |-> <<>>, sysfsPath |-> NULL]
  ELSE
    LET n == Len(usbfsPath)
        s == sscanfTail(usbfsPath[n - 1], usbfsPath[n])
        paths == [f \in SysfsFormats |-> SysfsCandidate(f, s.bus, s.device)]
        found == {f \in SysfsFormats : f \in exists}
    IN  IF s.count # 2 THEN [tried |-> <<>>, sysfsPath |-> NULL]
        ELSE IF found = {} THEN [tried |-> paths, sysfsPath |-> NULL]
        ELSE LET first == CHOOSE f \in found : \A g \in found : f <= g IN
             [tried |-> SubSeq(paths, 1, first),
              sysfsPath |-> IF strdup THEN paths[first] ELSE NULL]

\* access() and strdup() answer only where the call reaches them.
AccessAnswers(usbfsPath) ==
  IF Len(usbfsPath) >= 2
     /\ sscanfTail(usbfsPath[Len(usbfsPath) - 1], usbfsPath[Len(usbfsPath)]).count = 2
  THEN SUBSET SysfsFormats
  ELSE {{}}

MakeSysfsPath ==
  /\ ~sysfs.called
  /\ \E exists \in AccessAnswers(sysfs.usbfsPath) :
       \E strdup \in (IF exists = {} THEN {TRUE} ELSE BOOLEAN) :
         LET r == usbMakeSysfsPath(sysfs.usbfsPath, exists, strdup) IN
         sysfs' = [usbfsPath |-> sysfs.usbfsPath, called |-> TRUE,
                   tried |-> r.tried, sysfsPath |-> r.sysfsPath]
  /\ UNCHANGED <<deviceVars, last, fs, usbHostDevices, submit>>

InitSysfs ==
  /\ InitState
  /\ resubmitDelay = 0
  /\ submit = NoSubmit("BULK", "Bulk", <<>>)
  /\ sysfs \in {NoSysfs(p) : p \in UsbfsPaths}

NextSysfs == MakeSysfsPath

SpecSysfs == InitSysfs /\ [][NextSysfs]_vars

(***************************************************************************)
(* usbSubmitURB on its own: a request of any type tag on an endpoint of    *)
(* any transfer type, and every sequence of answers of the kernel.         *)
(***************************************************************************)
UrbTypes == {UrbType(t) : t \in {"Control", "Isochronous", "Interrupt", "Bulk"}}

\* The answers of the kernel to a submit request: success, and the errors
\* the function tells apart.
SubmitErrors == {0, EINVAL, ENXIO}

RECURSIVE SeqsUpTo(_, _)
SeqsUpTo(S, n) ==
  IF n = 0 THEN {<<>>}
  ELSE LET shorter == SeqsUpTo(S, n - 1) IN
       shorter \cup {Append(q, x) : q \in shorter, x \in S}

SubmitURB ==
  /\ ~submit.called
  /\ LET r == usbSubmitURB(submit.type, submit.transfer, submit.answers, <<>>) IN
     submit' = [submit EXCEPT !.called = TRUE, !.type = r.type, !.ok = r.ok,
                              !.errno = r.errno, !.log = r.log]
  /\ UNCHANGED <<deviceVars, last, fs, usbHostDevices, sysfs>>

InitSubmit ==
  /\ InitState
  /\ resubmitDelay = 0
  /\ sysfs = NoSysfs(<<>>)
  /\ submit \in {NoSubmit(type, transfer, answers) :
                   type \in UrbTypes,
                   transfer \in {"Control", "Isochronous", "Interrupt", "Bulk"},
                   answers \in SeqsUpTo(SubmitErrors, MaxSubmitAnswers)}

NextSubmit == SubmitURB

SpecSubmit == InitSubmit /\ [][NextSubmit]_vars


(***************************************************************************)
(* Properties of the interface control requests (under SpecIface).         *)
(***************************************************************************)
Requests(log, code) == SelectSeq(log, LAMBDA x : x.code = code)

ClaimRequests == Requests(last.log, "CLAIMINTERFACE")
OwnerQueries == Requests(last.log, "GETDRIVER")
Disconnects == Requests(last.log, "DISCONNECT")

\* The case of C6: the first claim request failed with busy and the owner
\* query named usbfs.
BusyOwnedByUsbfs ==
  /\ last.op = "claimInterface"
  /\ Len(ClaimRequests) >= 1
  /\ ClaimRequests[1].err = EBUSY
  /\ Len(OwnerQueries) >= 1
  /\ OwnerQueries[1].err = 0
  /\ OwnerQueries[1].drv = "usbfs"

\* C6: a claimInterface call whose first claim request fails with busy and
\* whose owner query names usbfs fails with Busy, having issued no driver
\* disconnect and no second claim request.
C6_UsbfsOwnerFailsBusy ==
  BusyOwnedByUsbfs =>
    /\ last.ret = 0
    /\ last.errno = EBUSY
    /\ Len(Disconnects) = 0
    /\ Len(ClaimRequests) = 1

C6_Witness == BusyOwnedByUsbfs

\* The requests of a call that issued a second claim request: a busy first
\* claim, an owner query naming a foreign driver, a successful disconnect.
RetriedAfterDisconnect ==
  LET log == SelectSeq(last.log, LAMBDA x : x.code # "open") IN
  /\ Len(log) = 4
  /\ log[1].code = "CLAIMINTERFACE" /\ log[1].err = EBUSY
  /\ log[2].code = "GETDRIVER" /\ log[2].err = 0 /\ log[2].drv \notin {"", "usbfs"}
  /\ log[3].code = "DISCONNECT" /\ log[3].err = 0
  /\ log[4].code = "CLAIMINTERFACE"

\* C7: one claimInterface call issues at most two claim requests and at most
\* one driver disconnect; the second claim request follows a busy first claim
\* and a successful disconnect of a foreign driver; a busy second claim makes
\* the call fail with Busy.
C7_ClaimRetriedOnce ==
  last.op = "claimInterface" =>
    /\ Len(ClaimRequests) <= 2
    /\ Len(Disconnects) <= 1
    /\ Len(ClaimRequests) = 2 => RetriedAfterDisconnect
    /\ (Len(ClaimRequests) = 2 /\ ClaimRequests[2].err = EBUSY) =>
         (last.ret = 0 /\ last.errno = EBUSY)

C7_Witness ==
  /\ last.op = "claimInterface"
  /\ Len(ClaimRequests) = 2
  /\ ClaimRequests[2].err = EBUSY
  /\ Len(Disconnects) = 1

ReleaseRequests == Requests(last.log, "RELEASEINTERFACE")

\* C8: releaseInterface returns success when the release request reports
\* device-gone (on every such call, so also on a repeated one), and failure
\* when the release request fails in any other way.
C8_ReleaseToleratesDeviceGone ==
  (last.op = "releaseInterface" /\ Len(ReleaseRequests) = 1) =>
    /\ ReleaseRequests[1].err = ENODEV => last.ret = 1
    /\ ReleaseRequests[1].err \notin {0, ENODEV} => last.ret = 0

C8_Witness ==
  /\ last.op = "releaseInterface"
  /\ Len(ReleaseRequests) = 1
  /\ ReleaseRequests[1].err = ENODEV
  /\ last.ret = 1

(***************************************************************************)
(* Properties of the request primitives (under SpecRequests).              *)
(***************************************************************************)
ReapOps == {"reapResponse", "reapResponseWait"}

\* The requests of endpoint e that have completed and have not been handed
\* back, in the order the kernel reported them: those filed on the completed
\* queue, then those the kernel still holds.
Completed(e) ==
  eptx[e].completedRequests \o SelectSeq(kdone, LAMBDA u : urbs[u].ep = e)

Without(q, u) == SelectSeq(q, LAMBDA x : x # u)

\* The step is a usbCancelRequest of request u, which is on the completed
\* queue of its endpoint; the node is open.
CancelsQueued(u) ==
  /\ last'.op = "cancelRequest"
  /\ last'.arg = u
  /\ urbs[u].st = "live"
  /\ InQueue(eptx[urbs[u].ep].completedRequests, u)
  /\ usbfsFile' # NoFile

\* C4: cancelling a request that is on its endpoint's completed queue
\* succeeds, removes it from that queue and no other request from any queue,
\* and frees it exactly once; a freed request is not touched again: it is
\* not returned by a later reapResponse and not freed a second time.
C4_CancelOfQueuedRequest ==
  [][\A u \in UrbIds :
       /\ CancelsQueued(u) =>
            /\ last'.ret = 1
            /\ urbs'[u].st = "freed"
            /\ urbs'[u].frees = 1
            /\ \A e \in Endpoints :
                 eptx'[e].completedRequests = Without(eptx[e].completedRequests, u)
            /\ kdone' = kdone
       /\ urbs[u].st = "freed" =>
            /\ urbs'[u] = urbs[u]
            /\ ~(last'.op \in ReapOps /\ last'.ret = u)
            /\ \A e \in Endpoints : ~InQueue(eptx'[e].completedRequests, u)
    ]_vars

\* A queued request was cancelled (the request was found without a reap)
\* while another request stayed on the same queue.
C4_Witness ==
  /\ last.op = "cancelRequest"
  /\ last.ret = 1
  /\ Len(Requests(last.log, "DISCARDURB")) = 1
  /\ Requests(last.log, "DISCARDURB")[1].err = EINVAL
  /\ Len(Requests(last.log, "REAPURBNDELAY")) = 0
  /\ urbs[last.arg].frees = 1
  /\ eptx[urbs[last.arg].ep].completedRequests # <<>>

Submits == Requests(last.log, "SUBMITURB")

\* The case of C5: usbSubmitRequest on an endpoint declared Interrupt, whose
\* Interrupt-typed request the kernel rejected with EINVAL.
InterruptRejected ==
  /\ last.op = "submitRequest"
  /\ desc[last.arg].transfer = "Interrupt"
  /\ Len(Submits) >= 1
  /\ Submits[1].drv = "INTERRUPT"
  /\ Submits[1].err = EINVAL

\* C5 (as the code has it): an Interrupt-typed request rejected with EINVAL
\* on an endpoint declared Interrupt is not retried: the call issues that one
\* submit request and fails with EINVAL.
C5_InterruptRejectedNotRetried ==
  InterruptRejected =>
    /\ Len(Submits) = 1
    /\ last.ret = NULL
    /\ last.errno = EINVAL

C5_Witness == InterruptRejected /\ last.ret = NULL

\* C5 as stated: the rejected request is retried exactly once, Bulk-typed.
C5_RetriedOnceAsBulk ==
  InterruptRejected =>
    /\ Len(Submits) = 2
    /\ Submits[2].drv = "BULK"

\* The step is a usbReapResponse on endpoint e without waiting, with nothing
\* on the completed queue of e and nothing completed in the kernel; the
\* device is present and the node is open.
ReapsNothing(e) ==
  /\ last'.op = "reapResponse"
  /\ last'.arg = e
  /\ eptx[e].completedRequests = <<>>
  /\ kdone = <<>>
  /\ ~gone
  /\ usbfsFile' # NoFile

\* C9: a usbReapResponse without waiting that finds nothing completed
\* returns no request with errno EAGAIN after one REAPURBNDELAY, reports no
\* system error, and leaves every completed queue as it was.
C9_NonBlockingReapFindsNothing ==
  [][\A e \in Endpoints :
       ReapsNothing(e) =>
         /\ last'.ret = NULL
         /\ last'.errno = EAGAIN
         /\ Len(Requests(last'.log, "REAPURBNDELAY")) = 1
         /\ Len(Requests(last'.log, "logSystemError")) = 0
         /\ \A f \in Endpoints :
              eptx'[f].completedRequests = eptx[f].completedRequests
         /\ kdone' = kdone
    ]_vars

C9_Witness ==
  /\ last.op = "reapResponse"
  /\ last.ret = NULL
  /\ last.errno = EAGAIN
  /\ Len(Requests(last.log, "REAPURBNDELAY")) = 1
  /\ kdone = <<>>
  /\ \E u \in UrbIds : pend[u] > 0

\* C10: for each endpoint, the requests completed and not yet handed back
\* keep the order in which the kernel reported them: a step adds a newly
\* completed request at the end, or hands back the first of them to a
\* usbReapResponse on that endpoint, or takes out the request being
\* cancelled, or leaves them as they are; a usbReapResponse that returns a
\* request returns the first.
C10_CompletionOrder ==
  [][\A e \in Endpoints :
       /\ \/ Completed(e)' = Completed(e)
          \/ /\ last'.op = "kernel"
             /\ \E u \in UrbIds : Completed(e)' = Append(Completed(e), u)
          \/ /\ last'.op \in ReapOps
             /\ last'.arg = e
             /\ Completed(e) # <<>>
             /\ last'.ret = Head(Completed(e))
             /\ Completed(e)' = Tail(Completed(e))
          \/ /\ last'.op = "cancelRequest"
             /\ urbs[last'.arg].ep = e
             /\ Completed(e)' = Without(Completed(e), last'.arg)
       /\ (last'.op \in ReapOps /\ last'.arg = e /\ last'.ret # NULL) =>
            /\ Completed(e) # <<>>
            /\ last'.ret = Head(Completed(e))
            /\ Completed(e)' = Tail(Completed(e))
    ]_vars

\* A request submitted later was handed back first: it completed first, and
\* the earlier request of the same endpoint is still to be handed back.
C10_Witness ==
  /\ last.op \in ReapOps
  /\ last.ret # NULL
  /\ \E u \in UrbIds :
       /\ u < last.ret
       /\ urbs[u].ep = last.arg
       /\ InQueue(Completed(last.arg), u)

(***************************************************************************)
(* Properties of the input monitor (under SpecMonitor).                    *)
(***************************************************************************)
Count(q, u) == Len(SelectSeq(q, LAMBDA x : x = u))

\* The requests of the monitor of endpoint e.
MonitorRequests(e) ==
  {u \in UrbIds : urbs[u].owner = "monitor" /\ urbs[u].ep = e}

\* How many times request u is submitted to the kernel and not yet reaped.
InFlight(u) == pend[u] + Count(kdone, u)

\* The endpoint is monitored: its monitor holds its request.
Monitored(e) == eptx[e].st = "present" /\ eptx[e].urb # NULL

\* C1: in every state, the monitor of an endpoint has at most one request,
\* and that request is in flight (submitted and not yet reaped) at most once.
C1_OneRequestInFlight ==
  \A e \in Endpoints :
    /\ Cardinality(MonitorRequests(e)) <= 1
    /\ \A u \in MonitorRequests(e) : InFlight(u) <= 1

\* The monitor's request is in flight again after the timer resubmitted it.
C1_Witness ==
  /\ last.op = "alarm"
  /\ last.ret = 1
  /\ Monitored(last.arg)
  /\ InFlight(eptx[last.arg].urb) = 1

RECURSIVE Shifted(_, _)
Shifted(n, N) == IF N = 0 THEN n ELSE Shifted(n * 2, N - 1)

\* The interval after N consecutive zero-byte completions, from the nominal
\* interval n: n itself before the first of them; then doubled N times from
\* n, or from 1 taken for the first when n is 0, and capped.
IntervalAfter(n, N) ==
  IF N = 0 THEN n
  ELSE IF n = 0 THEN MIN(Shifted(1, N - 1), BRAILLE_INPUT_POLL_INTERVAL)
  ELSE MIN(Shifted(n, N), BRAILLE_INPUT_POLL_INTERVAL)

\* C2 (as the code has it): on a monitored endpoint with nominal interval n,
\* the interval after N consecutive zero-byte completions is n when N = 0
\* (not capped), and for N >= 1 it is min(n << N, M) when n >= 1 and
\* min(1 << (N - 1), M) when n = 0.
C2_BackoffInterval ==
  \A e \in Endpoints :
    Monitored(e) => eptx[e].submitDelay = IntervalAfter(Nominal(e), zeros[e])

\* The cap is reached after several zero-byte completions.
C2_Witness ==
  \E e \in Endpoints :
    /\ Monitored(e)
    /\ zeros[e] >= 3
    /\ eptx[e].submitDelay = BRAILLE_INPUT_POLL_INTERVAL
    /\ last.op = "signal"
    /\ last.arg = e

\* C2 as stated: the interval is min(n << N, M) for every n and every N.
C2_BackoffIsCappedShift ==
  \A e \in Endpoints :
    Monitored(e) =>
      eptx[e].submitDelay = MIN(Shifted(Nominal(e), zeros[e]), BRAILLE_INPUT_POLL_INTERVAL)

\* The callback last run reaped its expected request with a positive count
\* (usbEnqueueInput is called for such a response, and for no other).
PositiveCompletion ==
  /\ last.op = "signal"
  /\ Len(Requests(last.log, "usbEnqueueInput")) = 1

\* ... and its data was enqueued.
PositiveEnqueued ==
  /\ PositiveCompletion
  /\ Requests(last.log, "usbEnqueueInput")[1].err = 0

\* C3 (as the code has it): right after a completion of the expected request
\* with a positive count whose data was enqueued, the interval of the
\* endpoint is its nominal interval, whatever it was before.
C3_IntervalResetWhenEnqueued ==
  PositiveEnqueued => eptx[last.arg].submitDelay = Nominal(last.arg)

C3_Witness ==
  /\ PositiveEnqueued
  /\ Monitored(last.arg)
  /\ eptx[last.arg].submitDelay = Nominal(last.arg)
  /\ zeros[last.arg] = 0

\* C3 as stated: right after any completion of the expected request with a
\* positive count, the interval is the nominal interval.
C3_IntervalResetOnPositive ==
  PositiveCompletion => eptx[last.arg].submitDelay = Nominal(last.arg)

(***************************************************************************)
(* Properties of the input monitor without faults (under SpecFaultless).   *)
(***************************************************************************)
\* The monitor's request of endpoint e has completed with success and has
\* not been reaped.
CompletedWithSuccess(e) ==
  /\ Monitored(e)
  /\ Count(kdone, eptx[e].urb) > 0
  /\ urbs[eptx[e].urb].status = 0

\* The monitor's request of endpoint e is submitted to the kernel.
Resubmitted(e) == Monitored(e) /\ pend[eptx[e].urb] > 0

\* C11: without faults, every completion of the monitor's request of an
\* endpoint is eventually followed by a submission of that same request.
C11_CompletionLeadsToResubmission ==
  \A e \in Endpoints : CompletedWithSuccess(e) ~> Resubmitted(e)

\* The request is in flight again after a zero-byte completion was handled
\* and the timer resubmitted it.
C11_Witness ==
  \E e \in Endpoints :
    /\ Resubmitted(e)
    /\ zeros[e] > 0
    /\ last.op = "alarm"
    /\ last.arg = e

(***************************************************************************)
(* Claims about the submissions of one request.                            *)
(***************************************************************************)
\* A step submits request u: the kernel has one more submission of it.
SubmittedNow(u) == pend'[u] > pend[u]

\* C12: a request is submitted only when no earlier submission of it is
\* pending in the kernel, and once the call that submits it has returned that
\* submission is the only one in flight: every earlier one has been reaped.
\* A request that is not a monitor's is submitted only by the step that
\* creates it, once.
C12_SubmittedOnlyWhenReaped ==
  [][\A u \in UrbIds :
       SubmittedNow(u) =>
         /\ pend[u] = 0
         /\ pend'[u] = 1
         /\ Count(kdone', u) = 0
         /\ urbs'[u].owner # "monitor" => urbs[u].st = "none"]_vars

\* A monitor's request has just been resubmitted by its callback while a
\* synchronous transfer polls for its own request and a request of the
\* protocol driver is pending.
C12_Witness ==
  /\ xfer # NoTransfer
  /\ urbs[xfer.urb].owner = "sync"
  /\ \E u \in UrbIds : urbs[u].owner = "user" /\ urbs[u].st = "live"
  /\ \E e \in Endpoints :
       /\ Monitored(e)
       /\ last.op = "signal" /\ last.arg = e /\ last.ret = 1
       /\ pend[eptx[e].urb] = 1

(***************************************************************************)
(* Claims about device discovery.                                          *)
(***************************************************************************)
\* The call that has just returned was usbFindDevice and made a pass.
Scanned ==
  /\ last.op = "findDevice"
  /\ \E i \in DOMAIN last.log : last.log[i].code = "opendir"

\* The paths the pass entered into the inventory, in the order it did.
Entered ==
  LET ok == SelectSeq(last.log, LAMBDA c : c.code = "enqueueItem" /\ c.err = 0)
  IN [i \in 1..Len(ok) |-> ok[i].drv]

Inventory == usbHostDevices.items

\* There is an inventory.
Cached == usbHostDevices.queue

\* C13: after a discovery pass no two entries of the inventory have the same
\* node path, and the entries are in the order the pass entered them.
C13_NoDuplicateNodes ==
  Cached =>
    /\ \A i, j \in DOMAIN Inventory : Inventory[i] = Inventory[j] => i = j
    /\ Scanned => Inventory = Entered

C13_Witness ==
  /\ Scanned
  /\ Cached
  /\ Len(Inventory) = 2
  /\ Len(Inventory[1]) # Len(Inventory[2])

\* Every name on the path consists of decimal digits only.
Numbered(p) == \A i \in DOMAIN p : \A j \in DOMAIN p[i] : p[i][j] \in Digits

\* The path is a regular or character-special file below directories only.
FileBelowDirectories(p) ==
  /\ fs[p].type \in {"reg", "chr"}
  /\ \A n \in 1..(Len(p) - 1) : fs[SubSeq(p, 1, n)].type = "dir"

Readable(p) == fs[p].descriptor = "ok"

Eligible == {p \in Paths : Numbered(p) /\ FileBelowDirectories(p) /\ Readable(p)}

\* C14: after a successful pass the inventory has exactly one entry for
\* each readable regular or character-special file that is reached through
\* names of decimal digits only, and no other entry.
C14_OneEntryPerNumberedFile ==
  (Scanned /\ Cached) =>
    /\ {Inventory[i] : i \in DOMAIN Inventory} = Eligible
    /\ Len(Inventory) = Cardinality(Eligible)

\* The root holds /1/2 (a device node) and a file whose name is not a
\* number: the inventory is /1/2 alone.
C14_Witness ==
  /\ Scanned
  /\ fs[<<<<"1">>>>].type = "dir"
  /\ fs[<<<<"1">>, <<"2">>>>] = [type |-> "chr", descriptor |-> "ok"]
  /\ fs[<<<<"1", "x">>>>] = [type |-> "reg", descriptor |-> "ok"]
  /\ Cached
  /\ Inventory = <<<<<<"1">>, <<"2">>>>>>

\* What the call that has just returned did, from the requests it made.
Did(code, err) ==
  \E i \in DOMAIN last.log : last.log[i].code = code /\ last.log[i].err = err

\* C15: usbFindDevice with an inventory uses it as it is and makes no pass;
\* usbForgetDevices leaves no inventory; usbFindDevice without an inventory
\* makes a new one and, with the usbfs root found, a pass from the root.
C15_InventoryKeptUntilForgotten ==
  [][/\ (last'.op = "findDevice" /\ Cached) =>
          /\ usbHostDevices' = usbHostDevices
          /\ ~Scanned'
     /\ last'.op = "forgetDevices" => usbHostDevices' = NoInventory
     /\ (last'.op = "findDevice" /\ ~Cached) =>
          /\ Did("newQueue", 0)' \/ Did("newQueue", ENOMEM)'
          /\ Did("usbGetUsbfs", 0)' => Scanned']_vars

\* usbFindDevice has answered from an inventory that a pass would no longer
\* give.
C15_Witness ==
  /\ last.op = "findDevice"
  /\ ~Scanned
  /\ Cached
  /\ Inventory # <<>>
  /\ ~UpToDate

\* The pass met a node whose descriptor could not be read, and nothing else
\* failed.
OnlyUnreadable ==
  /\ Scanned
  /\ Did("usbReadHostDeviceDescriptor", EIO)
  /\ ~Did("malloc", ENOMEM) /\ ~Did("enqueueItem", ENOMEM) /\ ~Did("opendir", ENOENT)

\* C18: a node whose descriptor cannot be read is left out of the inventory
\* and does not fail the pass: the pass succeeds with every readable node.
C18_UnreadableNodeDropped ==
  OnlyUnreadable =>
    /\ Cached
    /\ \A p \in Paths : ~Readable(p) => ~InQueue(Inventory, p)
    /\ \A p \in Eligible : InQueue(Inventory, p)

\* A readable node was entered after an unreadable one was dropped.
C18_Witness ==
  /\ OnlyUnreadable
  /\ \E i, j \in DOMAIN last.log :
       /\ i < j
       /\ last.log[i].code = "usbReadHostDeviceDescriptor"
       /\ last.log[j].code = "enqueueItem"

(***************************************************************************)
(* Claims about the node of the device handle.                             *)
(***************************************************************************)
\* The open() and close() calls of the call that returns in this step.
OpensNow == Requests(last'.log, "open")
ClosesNow == Requests(last'.log, "close")

\* C16: a call opens the node only while it is not open, and once at most;
\* an open node is kept as it is by every call but the teardown; a failed
\* open leaves the node not open; the teardown closes an open node once and
\* closes nothing when the node is not open, and nothing opens the node of a
\* handle that is torn down.
C16_NodeOpenedOnceClosedOnce ==
  [][/\ Len(OpensNow) <= (IF usbfsFile = NoFile /\ ~closing THEN 1 ELSE 0)
     /\ (usbfsFile # NoFile /\ last'.op # "close") => usbfsFile' = usbfsFile
     /\ usbfsFile = NoFile =>
          (usbfsFile' # NoFile <=> (OpensNow # <<>> /\ OpensNow[1].err = 0))
     /\ Len(ClosesNow) = (IF last'.op = "close" /\ usbfsFile # NoFile THEN 1 ELSE 0)
     /\ last'.op = "close" => usbfsFile' = NoFile]_vars

\* The teardown has closed a node that a monitor had been using.
C16_Witness ==
  /\ last.op = "close"
  /\ Requests(last.log, "close") # <<>>
  /\ usbfsFile = NoFile
  /\ \E u \in UrbIds : urbs[u].owner = "monitor" /\ urbs[u].st = "freed"

\* C17 (as stated): no request is issued to the kernel on a node that is not
\* open; the kernel answers such a request with EBADF.
C17_NoRequestOnClosedNode ==
  \A i \in DOMAIN last.log : last.log[i].err # EBADF

\* usbPrepareInputEndpoint has submitted its request on a handle whose node
\* was never opened.
C17_Witness ==
  /\ last.op = "prepare"
  /\ usbfsFile = NoFile
  /\ \E i \in DOMAIN last.log :
       last.log[i].code = "SUBMITURB" /\ last.log[i].err = EBADF

(***************************************************************************)
(* Claims about usbReadEndpoint and usbBulkTransfer.                       *)
(***************************************************************************)
\* What the input filters were asked by the call that has just returned, and
\* the transfers of it that the kernel completed with success.
Filtered == Requests(last.log, "usbApplyInputFilters")

Transferred ==
  SelectSeq(last.log, LAMBDA c : c.code \in {"BULK", "status"} /\ c.err = 0)

\* C19: usbReadEndpoint returns a count only after the input filters have
\* accepted it; when they reject it the call fails with EIO; and the filters
\* are asked once, and only about a transfer that succeeded.
C19_ReadResultPassesFilters ==
  last.op = "readEndpoint" =>
    /\ last.ret # -1 => (Len(Filtered) = 1 /\ Filtered[1].err = 0)
    /\ (Filtered # <<>> /\ Filtered[1].err # 0) => (last.ret = -1 /\ last.errno = EIO)
    /\ Len(Filtered) = Len(Transferred)
    /\ Len(Filtered) <= 1

\* The data of a synchronous interrupt transfer was rejected by the filters.
C19_Witness ==
  /\ last.op = "readEndpoint"
  /\ Requests(last.log, "status") # <<>>
  /\ Filtered # <<>> /\ Filtered[1].err # 0
  /\ last.ret = -1 /\ last.errno = EIO

\* The bulk requests of the call that has just returned.
Bulks == Requests(last.log, "BULK")

\* C20: when the kernel ends the request of usbBulkTransfer with ETIMEDOUT,
\* the call returns -1, with EAGAIN on an input endpoint and with ETIMEDOUT
\* on an output endpoint.
C20_TimeoutRenamedOnInputOnly ==
  (Bulks # <<>> /\ Bulks[1].err = ETIMEDOUT) =>
    /\ last.ret = -1
    /\ last.errno = (IF Bulks[1].drv = "Input" THEN EAGAIN ELSE ETIMEDOUT)
    /\ Bulks[1].drv = (IF last.op = "readEndpoint" THEN "Input" ELSE "Output")

\* A write has timed out.
C20_Witness ==
  /\ last.op = "writeEndpoint"
  /\ Bulks # <<>> /\ Bulks[1].err = ETIMEDOUT
  /\ last.errno = ETIMEDOUT

(***************************************************************************)
(* Claims about usbCancelRequest (under SpecRequests).                     *)
(***************************************************************************)
\* The requests of the usbCancelRequest that returns in this step, the
\* opening of the node left out.
CancelLog == SelectSeq(last'.log, LAMBDA c : c.code # "open")

DiscardsNow == Requests(last'.log, "DISCARDURB")
ReapsNow == Requests(last'.log, "REAPURBNDELAY")
FreesNow == Requests(last'.log, "free")

\* The step is a usbCancelRequest of request u that got the node open.
Cancels(u) == last'.op = "cancelRequest" /\ last'.arg = u /\ usbfsFile' # NoFile

\* Request u is on the completed queue of its endpoint.
OnQueue(u) == InQueue(eptx[urbs[u].ep].completedRequests, u)

\* The kernel's list of completed requests as the discard of u leaves it: a
\* request that was still pending is completed by the discard.
AfterDiscard(u) == IF pend[u] > 0 /\ ~gone THEN Append(kdone, u) ELSE kdone

\* The reaps it takes to get u from the kernel's list q: as many as the
\* requests up to u, or one more than the list holds when u is not there.
ReapsNeeded(q, u) ==
  IF InQueue(q, u)
  THEN CHOOSE k \in 1..Len(q) : q[k] = u /\ \A j \in 1..(k - 1) : q[j] # u
  ELSE Len(q) + 1

\* The last reap of the call failed.
DrainFailedNow == ReapsNow # <<>> /\ ReapsNow[Len(ReapsNow)].err # 0

\* The loop of the call ended with u found on its completed queue: u was
\* there from the start, or the last reap filed it.
FoundNow(u) == OnQueue(u) \/ (ReapsNow # <<>> /\ ReapsNow[Len(ReapsNow)].err = 0)

Made(code) == Requests(last.log, code)

Succeeded(code) == SelectSeq(last.log, LAMBDA c : c.code = code /\ c.err = 0)

\* usbPrepareInputEndpoint has just failed on endpoint e.
PrepareFailed(e) == last.op = "prepare" /\ last.arg = e /\ last.ret = 0

\* C22: after a usbPrepareInputEndpoint that failed, at whatever step, the
\* monitor record of the endpoint is as usbAllocateEndpointExtension made
\* it (no request, no signal number held, no registered callback, no timer,
\* no input pipe), no request of a monitor of the endpoint is in flight, and
\* everything the call acquired it has released: the input pipe is
\* destroyed, the request freed, the signal number relinquished and the
\* signal monitor cancelled, each once.
C22_FailedPrepareUnwinds ==
  \A e \in Endpoints :
    PrepareFailed(e) =>
      /\ eptx[e] = usbAllocateEndpointExtension(e)
      /\ eptx[e].urb = NULL /\ eptx[e].sigHeld = 0
      /\ ~eptx[e].signalHandle /\ ~eptx[e].pipe /\ ~eptx[e].alarmHandle
      /\ \A u \in MonitorRequests(e) : InFlight(u) = 0
      /\ MonitorRequests(e) = {}
      /\ Len(Made("usbDestroyInputPipe")) = Len(Succeeded("usbMakeInputPipe"))
      /\ Len(Made("free")) = Len(Succeeded("usbMakeURB"))
      /\ Len(Made("asyncRelinquishSignalNumber")) = Len(Succeeded("asyncObtainSignalNumber"))
      /\ Len(Made("asyncCancelRequest")) = Len(Succeeded("asyncMonitorSignal"))

\* The last step of Prepare failed: the kernel rejected the submission on
\* an open node, after the pipe, the request, the signal number and the
\* signal monitor had been acquired.
C22_Witness ==
  \E e \in Endpoints :
    /\ PrepareFailed(e)
    /\ usbfsFile # NoFile
    /\ Made("SUBMITURB") # <<>>
    /\ Len(Made("asyncCancelRequest")) = 1
    /\ Len(Made("free")) = 1

\* The step is the callback of endpoint e, and the request it reaps is the
\* one the monitor expects, u.
ReapsExpected(e, u) ==
  /\ last'.op = "signal"
  /\ last'.arg = e
  /\ u = eptx[e].urb
  /\ u # NULL
  /\ Requests(last'.log, "count") # <<>>
  /\ Requests(last'.log, "unexpected") = <<>>

\* What the response of the step says was transferred.
CountNow == Requests(last'.log, "count")[1].err

\* C24: when the request the monitor expects has completed with an error
\* status, or its data is rejected by the input filters, the callback
\* records that error on the endpoint (the status as a positive errno, EIO
\* for a rejection), relinquishes the signal number, frees the request and
\* clears it in the monitor record, and is deregistered; it sets no timer
\* and submits nothing.
C24_TransferErrorEndsMonitoring ==
  [][\A e \in Endpoints : \A u \in UrbIds :
       (ReapsExpected(e, u) /\ (urbs[u].status # 0 \/ CountNow = -1)) =>
         /\ CountNow = -1
         /\ eptx'[e].error = (IF urbs[u].status # 0 THEN Abs(urbs[u].status) ELSE EIO)
         /\ eptx'[e].sigHeld = 0 /\ eptx[e].sigHeld = 1
         /\ Len(Requests(last'.log, "asyncRelinquishSignalNumber")) = 1
         /\ eptx'[e].urb = NULL
         /\ urbs'[u].st = "freed" /\ urbs'[u].frees = 1
         /\ ~eptx'[e].signalHandle
         /\ ~eptx'[e].alarmHandle
         /\ Requests(last'.log, "asyncSetAlarmIn") = <<>>
         /\ Requests(last'.log, "SUBMITURB") = <<>>
         /\ pend' = pend
         /\ last'.ret = 0
    ]_vars

\* The data of the expected request was rejected by the input filters.
C24_Witness ==
  \E e \in Endpoints :
    /\ last.op = "signal" /\ last.arg = e /\ last.ret = 0
    /\ Made("count") # <<>> /\ Made("count")[1].err = -1
    /\ Made("unexpected") = <<>>
    /\ eptx[e].error = EIO
    /\ eptx[e].urb = NULL
    /\ eptx[e].sigHeld = 0
    /\ ~eptx[e].signalHandle

\* The calls of the step that set a timer, and its submissions.
AlarmsNow == Requests(last'.log, "asyncSetAlarmIn")
SubmitsNow == Requests(last'.log, "SUBMITURB")

\* The response of the step carried data, which was enqueued.
EnqueuedNow ==
  /\ CountNow > 0
  /\ Requests(last'.log, "usbEnqueueInput") # <<>>
  /\ Requests(last'.log, "usbEnqueueInput")[1].err = 0

\* The step leaves the resubmission to one timer: it submits nothing, and
\* the timer is pending unless it could not be set.
LeftToTimer(e) ==
  /\ Len(AlarmsNow) = 1
  /\ ~eptx[e].alarmHandle
  /\ eptx'[e].alarmHandle <=> AlarmsNow[1].err = 0
  /\ SubmitsNow = <<>>
  /\ pend' = pend

\* C25: the callback that has enqueued the data of the expected request
\* resets the interval to the nominal one and resubmits the request itself
\* exactly when that interval is 0; otherwise it sets one timer and submits
\* nothing.  After a zero-byte completion the interval is at least 1 and the
\* resubmission is left to one timer.  While the timer of an endpoint is
\* pending, nothing but the firing of that timer submits its request.
C25_ResubmitAtOnceOrByTimer ==
  [][\A e \in Endpoints : \A u \in UrbIds :
       /\ (ReapsExpected(e, u) /\ EnqueuedNow) =>
            /\ eptx'[e].submitDelay = Nominal(e)
            /\ IF Nominal(e) = 0
               THEN /\ SubmitsNow # <<>>
                    /\ AlarmsNow = <<>>
                    /\ ~eptx'[e].alarmHandle
                    /\ last'.ret = 1 <=> pend'[u] = pend[u] + 1
               ELSE LeftToTimer(e)
       /\ (ReapsExpected(e, u) /\ CountNow = 0) =>
            /\ eptx'[e].submitDelay >= 1
            /\ LeftToTimer(e)
       /\ (eptx[e].alarmHandle /\ u = eptx[e].urb /\ SubmittedNow(u)) =>
            /\ last'.op = "alarm"
            /\ last'.arg = e
            /\ ~eptx'[e].alarmHandle
    ]_vars

\* On the endpoint whose nominal interval is 0 the callback has enqueued
\* data and resubmitted the request itself.
C25_Witness ==
  \E e \in Endpoints :
    /\ Nominal(e) = 0
    /\ PositiveEnqueued
    /\ last.arg = e /\ last.ret = 1
    /\ Made("SUBMITURB") # <<>>
    /\ Made("asyncSetAlarmIn") = <<>>
    /\ Monitored(e)
    /\ pend[eptx[e].urb] = 1
    /\ eptx[e].submitDelay = 0

\* The step is the firing of the resubmission timer of endpoint e.
AlarmFires(e) == last'.op = "alarm" /\ last'.arg = e

\* The monitor of endpoint e holds its request, which is neither submitted
\* nor completed and waiting for the callback, nor waiting for a timer.
Stalled(e) ==
  /\ Monitored(e)
  /\ pend[eptx[e].urb] = 0
  /\ ~InQueue(Completed(e), eptx[e].urb)
  /\ ~eptx[e].alarmHandle

\* C26: when the resubmission timer of an endpoint fires, the timer handle
\* is cleared and the monitor's request is submitted with its actual length
\* reset to 0.  If the submission fails, the request is not in flight and no
\* timer is pending, and from then on, until the endpoint is torn down, the
\* request is not submitted again and no timer is set.
C26_TimerResubmitsOrMonitoringEnds ==
  [][\A e \in Endpoints :
       /\ AlarmFires(e) =>
            /\ eptx[e].alarmHandle
            /\ ~eptx'[e].alarmHandle
            /\ eptx[e].urb # NULL
            /\ eptx'[e].urb = eptx[e].urb
            /\ SubmitsNow # <<>>
            /\ urbs'[eptx[e].urb].len = 0
            /\ last'.ret = 1 => (pend'[eptx[e].urb] = 1 /\ InFlight(eptx[e].urb)' = 1)
            /\ last'.ret = 0 => Stalled(e)'
       /\ Stalled(e) =>
            /\ ~SubmittedNow(eptx[e].urb)
            /\ ~(last'.op \in {"alarm", "signal"} /\ last'.arg = e)
            /\ eptx'[e].st = "present" => Stalled(e)'
    ]_vars

\* The timer fired after data had come in, and the kernel rejected the
\* resubmission: the monitor holds a request that is not in flight.
C26_Witness ==
  \E e \in Endpoints :
    /\ last.op = "alarm" /\ last.arg = e /\ last.ret = 0
    /\ Stalled(e)
    /\ zeros[e] = 0
    /\ ~gone
    /\ urbs[eptx[e].urb].len = 0

\* The step is the teardown of endpoint e.
TornDownNow(e) == last'.op = "teardown" /\ last'.arg = e

\* How many calls of one kind the step made.
CallsNow(code) == Len(Requests(last'.log, code))

Bit(b) == IF b THEN 1 ELSE 0

\* C27: the teardown of an endpoint, whatever its monitor held, leaves no
\* request of its monitor submitted (unless the device is gone), the signal
\* number relinquished, the callback deregistered, no timer pending, the
\* request freed once and the completed queue released: it cancels a pending
\* timer, or else discards a request the monitor holds, relinquishes the
\* signal number of that request and cancels a registered signal monitor.
\* Once an endpoint is torn down none of its callbacks runs and its record
\* does not change.
C27_TeardownReleasesMonitor ==
  [][\A e \in Endpoints :
       /\ TornDownNow(e) =>
            /\ eptx'[e].st = "destroyed"
            /\ \A u \in MonitorRequests(e) : pend'[u] = 0 \/ gone
            /\ eptx'[e].sigHeld = 0
            /\ ~eptx'[e].signalHandle
            /\ ~eptx'[e].alarmHandle
            /\ eptx'[e].urb = NULL
            /\ eptx'[e].completedRequests = <<>>
            /\ \A u \in UrbIds :
                 u = eptx[e].urb => (urbs'[u].st = "freed" /\ urbs'[u].frees = 1)
            /\ CallsNow("DISCARDURB") = Bit(~eptx[e].alarmHandle /\ eptx[e].urb # NULL)
            /\ CallsNow("asyncRelinquishSignalNumber") = eptx[e].sigHeld
            /\ CallsNow("free") = Bit(eptx[e].urb # NULL)
            /\ CallsNow("asyncCancelRequest") =
                 Bit(eptx[e].alarmHandle) + Bit(eptx[e].signalHandle)
            /\ \A f \in Endpoints \ {e} : eptx'[f] = eptx[f]
       /\ eptx[e].st = "destroyed" =>
            /\ ~(last'.op \in {"signal", "alarm"} /\ last'.arg = e)
            /\ eptx'[e] = eptx[e]
    ]_vars

\* An endpoint whose callback had found nothing to reap on the removed
\* device, and was deregistered with the request kept, has been torn down:
\* the discard was answered ENODEV.
C27_Witness ==
  \E e \in Endpoints :
    /\ last.op = "teardown" /\ last.arg = e
    /\ eptx[e].st = "destroyed"
    /\ eptx[e].error = ENODEV
    /\ Made("DISCARDURB") # <<>> /\ Made("DISCARDURB")[1].err = ENODEV
    /\ Made("asyncRelinquishSignalNumber") # <<>>
    /\ Made("asyncCancelRequest") = <<>>
    /\ \E u \in MonitorRequests(e) : urbs[u].st = "freed"

(***************************************************************************)
(* Claims about the faults of the input monitor (under SpecShared).        *)
(***************************************************************************)
\* The callback of endpoint e has just reaped a request that is not the one
\* its monitor expects.
ReapedUnexpected(e) ==
  /\ last.op = "signal"
  /\ last.arg = e
  /\ Made("unexpected") # <<>>

\* C23 (as stated): after the callback of an endpoint has reaped a request
\* that is not the one its monitor expects, an I/O error is recorded on the
\* endpoint, the callback is deregistered, the signal number is relinquished,
\* the monitor holds no request and no timer, and nothing was resubmitted.
C23_UnexpectedRequestEndsMonitoring ==
  \A e \in Endpoints :
    ReapedUnexpected(e) =>
      /\ eptx[e].error = EIO
      /\ ~eptx[e].signalHandle
      /\ ~eptx[e].alarmHandle
      /\ Made("SUBMITURB") = <<>>
      /\ eptx[e].sigHeld = 0
      /\ Made("asyncRelinquishSignalNumber") # <<>>
      /\ eptx[e].urb = NULL

\* The callback has reaped and freed a request of the protocol driver; the
\* signal number is still held and the monitor still holds its request,
\* which is in flight with no callback registered for its signal.
C23_Witness ==
  \E e \in Endpoints :
    /\ ReapedUnexpected(e)
    /\ eptx[e].error = EIO
    /\ ~eptx[e].signalHandle
    /\ eptx[e].sigHeld = 1
    /\ eptx[e].urb # NULL
    /\ InFlight(eptx[e].urb) = 1
    /\ urbs[eptx[e].urb].st = "live"
    /\ \E u \in UrbIds : urbs[u].owner = "user" /\ urbs[u].st = "freed"

(***************************************************************************)
(* Claims about usbInterruptTransfer (under SpecSync).                     *)
(***************************************************************************)
\* The step is one iteration of the loop of usbInterruptTransfer.
PollsNow ==
  /\ xfer # NoTransfer
  /\ last'.op \in {"interruptTransfer", "readEndpoint"}

\* The iteration finds the request: its reap succeeds, and the request is
\* then on the completed queue of its endpoint.
FoundByPoll ==
  /\ usbfsFile # NoFile /\ ~gone /\ kdone # <<>>
  /\ \/ InQueue(eptx[xfer.ep].completedRequests, xfer.urb)
     \/ (Head(kdone) = xfer.urb /\ urbs[xfer.urb].ep = xfer.ep)

\* The iteration ends the call with the request found.
CompletesNow ==
  /\ xfer' = NoTransfer
  /\ last'.op = "readEndpoint"
  /\ urbs'[xfer.urb].st = "freed" /\ urbs'[xfer.urb].frees = 1
  /\ CallsNow("DISCARDURB") = 0 /\ CallsNow("asyncWait") = 0
  /\ IF urbs[xfer.urb].status = 0
     THEN \/ last'.ret = MIN(urbs[xfer.urb].len, BufferLength)
          \/ (last'.ret = -1 /\ last'.errno = EIO
                /\ CallsNow("usbApplyInputFilters") = 1)
     ELSE last'.ret = -1 /\ last'.errno = Abs(urbs[xfer.urb].status)

\* The iteration sleeps for bInterval + 1 and the call goes on.
SleepsNow ==
  /\ xfer' = [xfer EXCEPT !.asleep = TRUE]
  /\ ~xfer.zero
  /\ last'.op = "interruptTransfer"
  /\ CallsNow("asyncWait") = 1
  /\ last'.log[Len(last'.log)] = Call("asyncWait", desc[xfer.ep].bInterval + 1)
  /\ CallsNow("DISCARDURB") = 0
  /\ urbs' = urbs /\ pend' = pend

\* The iteration ends the call at its deadline: the request is cancelled.
TimesOutNow ==
  /\ xfer' = NoTransfer
  /\ last'.op = "readEndpoint"
  /\ last'.ret = -1 /\ last'.errno = ETIMEDOUT
  /\ CallsNow("DISCARDURB") = 1
  /\ CallsNow("asyncWait") = 0
  /\ pend'[xfer.urb] = 0 \/ gone
  /\ CallsNow("free") = 1 <=> urbs'[xfer.urb].st = "freed"

FaultsNow(e) ==
  /\ last'.op \in {"signal", "alarm"}
  /\ last'.arg = e
  /\ last'.ret = 0

\* The monitor record of an endpoint extension.
MonitorRecord(x) ==
  [urb |-> x.urb, sigHeld |-> x.sigHeld, signalHandle |-> x.signalHandle,
   alarmHandle |-> x.alarmHandle, submitDelay |-> x.submitDelay]

\* The callbacks of endpoint f that are due.
SignalDue(f) == eptx[f].signalHandle /\ f \in sigPending
AlarmDue(f) == eptx[f].alarmHandle

\* C29: a callback of one endpoint that ends in a fault leaves, for every
\* other endpoint, the monitor record, the recorded error and the input
\* pipe as they were, does not touch the requests of the other endpoints
\* (none is freed, submitted or taken from the completed requests of its
\* endpoint) or their pending signals, so that every callback of another
\* endpoint that was due is still due; and it leaves the node open.
C29_FaultLeavesOtherEndpoints ==
  [][\A e \in Endpoints :
       FaultsNow(e) =>
         /\ usbfsFile' = usbfsFile
         /\ usbfsFile # NoFile
         /\ claimed' = claimed
         /\ \A f \in Endpoints \ {e} :
              /\ MonitorRecord(eptx'[f]) = MonitorRecord(eptx[f])
              /\ eptx'[f].error = eptx[f].error
              /\ eptx'[f].pipe = eptx[f].pipe
              /\ eptx'[f].st = eptx[f].st
              /\ Completed(f)' = Completed(f)
              /\ SignalDue(f) => SignalDue(f)'
              /\ AlarmDue(f) => AlarmDue(f)'
         /\ \A v \in UrbIds :
              urbs[v].ep # e => (urbs'[v] = urbs[v] /\ pend'[v] = pend[v])
    ]_vars

\* The callback of one endpoint has reaped an unexpected request and is
\* deregistered, while the monitor of the other endpoint has its request
\* submitted and its callback registered.
C29_Witness ==
  \E e \in Endpoints : \E f \in Endpoints \ {e} :
    /\ ReapedUnexpected(e)
    /\ ~eptx[e].signalHandle
    /\ Monitored(f)
    /\ eptx[f].signalHandle
    /\ pend[eptx[f].urb] = 1
    /\ eptx[f].error = 0

(***************************************************************************)
(* Claims about usbMakeSysfsPath (under SpecSysfs).                        *)
(***************************************************************************)
\* The numbers the two names at the end of the path denote.
BusNumber == Decimal(sysfs.usbfsPath[Len(sysfs.usbfsPath) - 1])
DeviceNumber == Decimal(sysfs.usbfsPath[Len(sysfs.usbfsPath)])

\* The call has parsed a bus and a device number and made its paths.
MinorMade == sysfs.called /\ sysfs.tried # <<>>

\* The minor number written into the first path.
MinorUsed == sysfs.tried[1].numbers[1]

\* (bus-1)*128 + (device-1)
MinorSum == (BusNumber - 1) * 128 + (DeviceNumber - 1)

\* Bit i of the number n >= 0.
BitOf(n, i) == (n \div 2^i) % 2

\* a and b have a binary digit 1 in the same place.
ShareBit(a, b) == \E i \in 0..(WordBits - 2) : BitOf(a, i) = 1 /\ BitOf(b, i) = 1

AnswerTo(i) == IF i <= Len(submit.answers) THEN submit.answers[i] ELSE 0

\* The first submit request is one the function retries.
RetriedCase ==
  /\ AnswerTo(1) = EINVAL
  /\ submit.log[1].drv = "BULK"
  /\ submit.transfer = "Interrupt"

\* C39: every call of usbSubmitURB ends, whatever the kernel answers, after
\* one or two submit requests; there is a second one exactly when the first,
\* typed Bulk on an endpoint declared Interrupt, was rejected with EINVAL,
\* and the second is typed Interrupt; the call succeeds exactly when its
\* last request was accepted, and fails with the error of its last request.
C39_SubmitAtMostTwice ==
  /\ ~submit.called => ENABLED SubmitURB
  /\ submit.called =>
       /\ Len(submit.log) \in 1..2
       /\ \A i \in 1..Len(submit.log) :
            submit.log[i].code = "SUBMITURB" /\ submit.log[i].err = AnswerTo(i)
       /\ Len(submit.log) = 2 <=> RetriedCase
       /\ Len(submit.log) = 2 =>
            submit.log[2].drv = "INTERRUPT" /\ submit.type = "INTERRUPT"
       /\ Len(submit.log) = 1 => submit.type = submit.log[1].drv
       /\ submit.ok <=> submit.log[Len(submit.log)].err = 0
       /\ submit.errno = submit.log[Len(submit.log)].err

\* A Bulk-typed request on an endpoint declared Interrupt was rejected with
\* EINVAL, retried as Interrupt-typed and rejected with EINVAL again, with
\* a third rejection ready: the call has failed after two requests.
C39_Witness ==
  /\ submit.called
  /\ submit.answers = <<EINVAL, EINVAL, EINVAL>>
  /\ Len(submit.log) = 2
  /\ submit.log[1].drv = "BULK"
  /\ submit.log[2].drv = "INTERRUPT"
  /\ ~submit.ok
  /\ submit.errno = EINVAL

(***************************************************************************)
(* Claims about usbInterruptTransfer without timeout (under SpecSync).     *)
(***************************************************************************)
\* The requests of the step's call that precede its discard, if it has one.
RECURSIVE BeforeDiscard(_)
BeforeDiscard(log) ==
  IF log = <<>> \/ Head(log).code = "DISCARDURB" THEN <<>>
  ELSE <<Head(log)>> \o BeforeDiscard(Tail(log))

\* C34: the first iteration of a usbInterruptTransfer called with timeout 0
\* ends the call: it reaps once without waiting, and if that does not find
\* the request it cancels the request and fails with ETIMEDOUT; it does not
\* ask the clock and does not sleep.
C34_ZeroTimeoutPollsOnce ==
  [][(PollsNow /\ xfer.zero) =>
       /\ xfer' = NoTransfer
       /\ last'.op = "readEndpoint"
       /\ Len(Requests(BeforeDiscard(last'.log), "REAPURBNDELAY")) = 1
       /\ last'.log[1].code = "REAPURBNDELAY"
       /\ CallsNow("REAPURB") = 0
       /\ CallsNow("asyncWait") = 0
       /\ CallsNow("afterTimePeriod") = 0
       /\ IF FoundByPoll
          THEN CallsNow("DISCARDURB") = 0 /\ last'.errno # ETIMEDOUT
          ELSE /\ CallsNow("DISCARDURB") = 1
               /\ last'.ret = -1
               /\ last'.errno = ETIMEDOUT
               /\ pend'[xfer.urb] = 0 \/ gone
    ]_vars

\* A transfer without timeout has ended with ETIMEDOUT: it reaped once,
\* found nothing, and discarded its request, which was still pending.
C34_Witness ==
  /\ last.op = "readEndpoint"
  /\ last.ret = -1 /\ last.errno = ETIMEDOUT
  /\ xfer = NoTransfer
  /\ Made("afterTimePeriod") = <<>>
  /\ Made("asyncWait") = <<>>
  /\ last.log[1].code = "REAPURBNDELAY" /\ last.log[1].err = EAGAIN
  /\ Made("DISCARDURB") # <<>> /\ Made("DISCARDURB")[1].err = 0

(***************************************************************************)
(* Claims about usbCancelRequest on a device that is gone (under           *)
(* SpecRequests).                                                          *)
(***************************************************************************)
\* The discard of the usbCancelRequest of this step was answered ENODEV.
DiscardFoundDeviceGone == DiscardsNow # <<>> /\ DiscardsNow[1].err = ENODEV

\* C37: a usbCancelRequest whose discard is answered ENODEV reaps nothing,
\* takes the request from the completed queue of its endpoint if it is
\* there, leaves every other queue and the kernel's list alone, releases
\* the request once and returns 1, whether the request was on the queue or
\* not.
C37_CancelOnDeviceGone ==
  [][\A u \in UrbIds :
       (Cancels(u) /\ DiscardFoundDeviceGone) =>
         /\ ReapsNow = <<>>
         /\ CallsNow("REAPURB") = 0
         /\ last'.ret = 1
         /\ Len(FreesNow) = 1
         /\ urbs'[u].st = "freed" /\ urbs'[u].frees = 1
         /\ \A v \in UrbIds \ {u} : urbs'[v] = urbs[v]
         /\ \A e \in Endpoints :
              eptx'[e].completedRequests =
                SelectSeq(eptx[e].completedRequests, LAMBDA v : v # u)
         /\ kdone' = kdone
         /\ pend' = pend
    ]_vars

\* A request that was still submitted when the device was removed, and so
\* on no queue, has been cancelled: the discard was answered ENODEV, nothing
\* was reaped, and the request was released with success.
C37_Witness ==
  /\ last.op = "cancelRequest"
  /\ last.ret = 1
  /\ Made("DISCARDURB") # <<>> /\ Made("DISCARDURB")[1].err = ENODEV
  /\ Made("REAPURBNDELAY") = <<>>
  /\ pend[last.arg] = 1
  /\ Count(kdone, last.arg) = 0
  /\ urbs[last.arg].st = "freed"

(***************************************************************************)
(* Claims about the resubmission timer (under SpecMonitor).                *)
(***************************************************************************)
\* The step sets a timer for endpoint e.
SetsAlarm(e) ==
  /\ last'.op = "signal" /\ last'.arg = e
  /\ \E i \in 1..Len(last'.log) :
       last'.log[i].code = "asyncSetAlarmIn" /\ last'.log[i].err = 0

\* The timer of endpoint e is pending.
AlarmPending(e) == eptx[e].alarmHandle

\* C35: while the resubmission timer of an endpoint is pending, the monitor
\* holds its request, and that request is neither submitted nor completed
\* and waiting to be reaped; a timer is set only while none is pending, so
\* there is never more than one; and the teardown of an endpoint with a
\* timer pending cancels the timer and issues no discard.
C35_TimerPendingState ==
  [][\A e \in Endpoints :
       /\ AlarmPending(e)' =>
            /\ eptx'[e].st = "present"
            /\ eptx'[e].urb # NULL
            /\ urbs'[eptx'[e].urb].st = "live"
            /\ pend'[eptx'[e].urb] = 0
            /\ Count(kdone', eptx'[e].urb) = 0
            /\ ~InQueue(eptx'[e].completedRequests, eptx'[e].urb)
       /\ SetsAlarm(e) => (~AlarmPending(e) /\ AlarmPending(e)')
       /\ (TornDownNow(e) /\ AlarmPending(e)) =>
            /\ CallsNow("DISCARDURB") = 0
            /\ last'.log[1] = Call("asyncCancelRequest", 0)
            /\ ~AlarmPending(e)'
            /\ pend' = pend /\ kdone' = kdone
    ]_vars

\* An endpoint has been torn down while its timer was pending: the timer
\* was cancelled, the signal number relinquished, the request freed and the
\* signal monitor cancelled, and nothing was discarded.
C35_Witness ==
  /\ last.op = "teardown"
  /\ last.log = <<Call("asyncCancelRequest", 0), Call("asyncRelinquishSignalNumber", 0),
                  Call("free", 0), Call("asyncCancelRequest", 0)>>
  /\ eptx[last.arg].st = "destroyed"

(***************************************************************************)
(* Claims about usbInterruptTransfer beside other reapers (under           *)
(* SpecTransfers).                                                         *)
(***************************************************************************)
\* The request of the transfer in progress has completed and another reaper
\* (the callback of a monitor, or the drain of a cancel) has filed it on the
\* completed queue of its endpoint.
FiledByAnother ==
  /\ xfer # NoTransfer
  /\ InQueue(eptx[xfer.ep].completedRequests, xfer.urb)

\* C31 as stated: an iteration of usbInterruptTransfer that starts with its
\* request already on the completed queue of its endpoint does not end the
\* call with ETIMEDOUT.
C31_FiledRequestNotTimedOut ==
  [][(PollsNow /\ FiledByAnother) =>
       ~(last'.op = "readEndpoint" /\ last'.errno = ETIMEDOUT)
    ]_vars

\* A transfer has ended with ETIMEDOUT although its request had completed:
\* its reap found nothing in the kernel, the discard was answered EINVAL,
\* and the cancel took the request from the completed queue without a reap
\* and freed it.
C31_Witness ==
  /\ last.op = "readEndpoint"
  /\ last.ret = -1 /\ last.errno = ETIMEDOUT
  /\ Len(Made("REAPURBNDELAY")) = 1
  /\ Made("REAPURBNDELAY")[1].err = EAGAIN
  /\ Made("DISCARDURB") # <<>> /\ Made("DISCARDURB")[1].err = EINVAL
  /\ Made("free") # <<>>

(***************************************************************************)
(* Claims about the end of monitoring (under SpecMonitor).                 *)
(***************************************************************************)
\* Monitoring of endpoint e, which usbPrepareInputEndpoint had started, has
\* stopped for good before the teardown: no request of its monitor is
\* submitted or completed and waiting for the callback, and no timer is
\* pending.
StoppedForGood(e) ==
  /\ eptx[e].st = "present"
  /\ ~closing
  /\ eptx[e].pipe
  /\ ~eptx[e].alarmHandle
  /\ \A u \in MonitorRequests(e) :
       urbs[u].st = "live" => (pend[u] = 0 /\ ~InQueue(Completed(e), u))

\* C33 as stated: whenever monitoring of an endpoint has stopped for good
\* before teardown, an error is recorded on the endpoint and its signal
\* callback is deregistered.
C33_StopIsRecorded ==
  \A e \in Endpoints :
    StoppedForGood(e) => (eptx[e].error # 0 /\ ~eptx[e].signalHandle)

\* The timer callback of an endpoint has failed to resubmit the request on
\* a device that is present: monitoring has stopped, no error is recorded
\* and the signal callback is still registered.
C33_Witness ==
  \E e \in Endpoints :
    /\ last.op = "alarm" /\ last.arg = e /\ last.ret = 0
    /\ ~gone
    /\ StoppedForGood(e)
    /\ eptx[e].error = 0
    /\ eptx[e].signalHandle
    /\ eptx[e].urb # NULL

(***************************************************************************)
(* Claims about the lifetime of the requests (under SpecLifetime).         *)
(***************************************************************************)
\* Request u has been freed.
Freed(u) == urbs[u].st = "freed"

\* Something still refers to request u: the monitor record of an endpoint,
\* a completed queue, or the synchronous transfer in progress.
Referenced(u) ==
  \/ \E e \in Endpoints : eptx[e].urb = u
  \/ \E e \in Endpoints : InQueue(eptx[e].completedRequests, u)
  \/ xfer.urb = u

\* C32 as stated: every request is freed at most once, and a request that
\* has been freed is not referred to by a monitor record, a completed queue
\* or a synchronous transfer in progress.
C32_FreedOnceAndUnreferenced ==
  \A u \in UrbIds :
    /\ urbs[u].frees <= 1
    /\ Freed(u) => ~Referenced(u)

\* The callback of the monitor has reaped the request of the synchronous
\* transfer that sleeps on the same endpoint, as an unexpected request, and
\* has freed it: the transfer still refers to it.
C32_Witness ==
  /\ last.op = "signal" /\ last.ret = 0 /\ last.errno = EIO
  /\ Made("unexpected") # <<>>
  /\ xfer # NoTransfer
  /\ xfer.asleep
  /\ Freed(xfer.urb)
  /\ urbs[xfer.urb].frees = 1

(***************************************************************************)
(* Claims about the completion-signal number (under SpecLifetime).         *)
(***************************************************************************)
\* The calls the step made for endpoint e.
CallsFor(e, code) ==
  IF last'.op \in {"prepare", "signal", "alarm", "teardown"} /\ last'.arg = e
  THEN CallsNow(code)
  ELSE 0

\* The signal numbers the step obtained for endpoint e.
ObtainedNow(e) ==
  IF last'.op = "prepare" /\ last'.arg = e
  THEN Len(SelectSeq(last'.log,
                     LAMBDA c : c.code = "asyncObtainSignalNumber" /\ c.err = 0))
  ELSE 0

\* C36: a signal number is obtained only by usbPrepareInputEndpoint, once
\* for an endpoint; every asyncRelinquishSignalNumber releases a number
\* that is held, so none is relinquished twice; the number is held exactly
\* while the monitor holds its request; a failed Prepare and a fault of the
\* callback on the expected request relinquish it at once, a callback that
\* leaves the request with the monitor (unexpected or missing request, or a
\* failed resubmission by the timer) leaves it held, and the teardown
\* relinquishes a number that is still held, so that none is held after it.
C36_SignalRelinquishedOnce ==
  [][\A e \in Endpoints :
       /\ eptx'[e].sigHeld =
            eptx[e].sigHeld + ObtainedNow(e) - CallsFor(e, "asyncRelinquishSignalNumber")
       /\ eptx'[e].sigHeld \in {0, 1}
       /\ CallsFor(e, "asyncRelinquishSignalNumber") <= eptx[e].sigHeld + ObtainedNow(e)
       /\ ObtainedNow(e) = 1 => eptx[e].st = "absent"
       /\ eptx'[e].sigHeld = 1 <=> eptx'[e].urb # NULL
       /\ (last'.op = "prepare" /\ last'.arg = e /\ last'.ret = 0) =>
            eptx'[e].sigHeld = 0
       /\ (last'.op = "signal" /\ last'.arg = e /\ last'.ret = 0) =>
            CallsFor(e, "asyncRelinquishSignalNumber") =
              Bit(CallsNow("count") = 1)
       /\ (last'.op = "alarm" /\ last'.arg = e) =>
            CallsFor(e, "asyncRelinquishSignalNumber") = 0
       /\ TornDownNow(e) =>
            /\ CallsFor(e, "asyncRelinquishSignalNumber") = eptx[e].sigHeld
            /\ eptx'[e].sigHeld = 0
       /\ eptx[e].st = "destroyed" => eptx'[e].sigHeld = 0
    ]_vars

\* The callback of an endpoint had reaped an unexpected request and left
\* the signal number held; the teardown of the endpoint has relinquished it.
C36_Witness ==
  \E e \in Endpoints :
    /\ last.op = "teardown" /\ last.arg = e
    /\ eptx[e].error = EIO
    /\ Len(Made("asyncRelinquishSignalNumber")) = 1
    /\ eptx[e].sigHeld = 0

(***************************************************************************)
(* Claims about a discovery that fails (under SpecDiscovery).              *)
(***************************************************************************)
\* The call that has just returned could not build the inventory: no queue,
\* no usbfs root, a directory that does not open, or no memory for a host
\* device or for its entry.
BuildFailed ==
  /\ last.op = "findDevice"
  /\ \/ Did("newQueue", ENOMEM)
     \/ Did("usbGetUsbfs", ENOENT)
     \/ Did("opendir", ENOENT)
     \/ Did("malloc", ENOMEM)
     \/ Did("enqueueItem", ENOMEM)

\* The call that has just returned began a discovery of its own.
Discovered == Did("newQueue", 0) \/ Did("newQueue", ENOMEM)

\* C38: a usbFindDevice that cannot build the inventory returns no device
\* and leaves no inventory behind, whatever the pass had entered, so that
\* the usbFindDevice after it begins a discovery of its own; a discovery
\* in which nothing fails is kept, also when it found no host device, and
\* a usbFindDevice that follows it makes no discovery and finds nothing.
C38_FailedDiscoveryNotCached ==
  [][/\ BuildFailed' =>
          /\ last'.ret = NULL
          /\ usbHostDevices' = NoInventory
          /\ ~Did("processQueue", 0)'
     /\ (last'.op = "findDevice" /\ (BuildFailed \/ ~usbHostDevices.queue)) =>
          Discovered'
     /\ (last'.op = "findDevice" /\ Discovered' /\ ~BuildFailed') =>
          usbHostDevices'.queue
     /\ (last'.op = "findDevice" /\ usbHostDevices.queue /\ usbHostDevices.items = <<>>) =>
          /\ ~Discovered'
          /\ usbHostDevices' = usbHostDevices
          /\ last'.ret = NULL
     /\ (usbHostDevices.queue /\ ~usbHostDevices'.queue) => last'.op = "forgetDevices"
    ]_vars

\* The pass had entered a host device when a directory did not open or the
\* memory ran out: nothing of it is kept.
C38_Witness ==
  /\ BuildFailed
  /\ Did("enqueueItem", 0)
  /\ Did("deallocateQueue", 0)
  /\ usbHostDevices = NoInventory

\* A discovery that found no host device is kept, and a usbFindDevice has
\* answered from it.
EmptyInventoryUsed ==
  /\ last.op = "findDevice"
  /\ ~Discovered
  /\ usbHostDevices.queue
  /\ usbHostDevices.items = <<>>

====
